---- MODULE Spec2Model ----
(***************************************************************************)
(* Model of the evaluation engine of the trustworthy model registry:       *)
(* resource handlers (backend/core/handlers), metrics                      *)
(* (backend/core/metrics) and the orchestrator                             *)
(* (backend/core/model_evaluator.py).                                      *)
(*                                                                         *)
(* Conventions                                                             *)
(*  - Python floats are modelled as exact rationals <<n, d>> in lowest     *)
(*    terms with d > 0.                                                    *)
(*  - A JSON value is a tagged tuple: <<"missing">> (key absent),          *)
(*    <<"null">>, <<"num", n>>, <<"bool", b>>, <<"str", s>>,               *)
(*    <<"list", seq>>.                                                     *)
(*  - A call that can raise returns a record with a field `raised`.        *)
(***************************************************************************)
EXTENDS Integers, Sequences, FiniteSets, TLC

VARIABLES
    upstream,        \* the responses of the hub and of the code host, per identifier
    delay,           \* wall-clock milliseconds that one handle method call takes
    urls,            \* the URL list given to evaluate_urls
    pc,              \* position of the evaluate_urls call
    calls,           \* number of evaluate_urls calls started so far
    resources,       \* the resource group of the current call: category -> handles
    todo,            \* MODEL URLs of the batch still to be evaluated
    results,         \* results list of the current call
    returned,        \* the lists returned by the finished calls, oldest first
    max_workers,     \* width of the worker pool
    task,            \* fan-out: metric name -> "queued" | "running" | "done" | "collected"
    future,          \* fan-out: metric name -> what the task returned
    metric_results,  \* fan-out: the result map built by the collecting loop
    fan_net,         \* fan-out: the net score computed after the join
    unit,            \* the last call of a pure function under test: its input and output
    file,            \* the lines of the file given to evaluate_from_file
    line_num,        \* the number of lines of the file read so far
    table,           \* the registry's DynamoDB table: its items
    registry         \* what was registered, and whether the registry was reset

vars == <<upstream, delay, urls, pc, calls, resources, todo, results, returned,
          max_workers, task, future, metric_results, fan_net, unit, file, line_num,
          table, registry>>

-----------------------------------------------------------------------------
(* Rationals                                                               *)

\* the greatest common divisor of a >= 0 and b >= 0
RECURSIVE GCD(_, _)
GCD(a, b) == IF b = 0 THEN a ELSE GCD(b, a % b)

\* n / d for n >= 0 and d > 0, in lowest terms
Rat(n, d) == <<n \div GCD(n, d), d \div GCD(n, d)>>

Zero == <<0, 1>>
One == <<1, 1>>
Tenths(k) == Rat(k, 10)
\* the sum of tenths as it stands, not capped
Uncapped(tenths) == Tenths(tenths)

\* min(score, 1.0) for a score that is a sum of tenths, given in tenths
MinOne(tenths) == Tenths(IF tenths <= 10 THEN tenths ELSE 10)

RAdd(a, b) == Rat(a[1] * b[2] + b[1] * a[2], a[2] * b[2])
RMul(a, b) == Rat(a[1] * b[1], a[2] * b[2])
RDiv(a, b) == Rat(a[1] * b[2], a[2] * b[1])
RLe(a, b) == a[1] * b[2] <= b[1] * a[2]
RMin(a, b) == IF RLe(a, b) THEN a ELSE b
RInUnit(a) == RLe(Zero, a) /\ RLe(a, One)

\* Body(v) for the value v that e has: the statements of a loop run one after
\* the other, each from the values the one before it left
Then(e, Body(_)) == CHOOSE out \in {Body(v) : v \in {e}} : TRUE

\* sum(s), from 0 and from the left as Python adds
RECURSIVE RSumFrom(_, _)
RSumFrom(s, acc) ==
    IF s = <<>> THEN acc ELSE Then(RAdd(acc, s[1]), LAMBDA a : RSumFrom(Tail(s), a))

RSum(s) == RSumFrom(s, Zero)

RECURSIVE ISum(_)
ISum(s) == IF s = <<>> THEN 0 ELSE s[1] + ISum(Tail(s))

-----------------------------------------------------------------------------
(* JSON values and the Python operations the handlers apply to them        *)

Missing == <<"missing">>
Null == <<"null">>
Num(n) == <<"num", n>>
Bool(b) == <<"bool", b>>
Str(s) == <<"str", s>>
List(s) == <<"list", s>>
\* a nested JSON object, by whether it has any key
Obj(nonempty) == <<"obj", nonempty>>

\* dict.get(key, default): the default only replaces an absent key, not a null
PyGet(v, default) == IF v = Missing THEN default ELSE v

\* truth value of a JSON value (None, 0, False, "" and [] are falsy)
PyTruthy(v) ==
    CASE v[1] = "missing" -> FALSE
      [] v[1] = "null" -> FALSE
      [] v[1] = "num" -> v[2] # 0
      [] v[1] = "bool" -> v[2]
      [] v[1] = "str" -> v[2] # ""
      [] v[1] = "list" -> v[2] # <<>>
      [] v[1] = "obj" -> v[2]

\* v >= n, with the same three outcomes as v > n below
PyGe(v, n) ==
    IF v[1] = "num" THEN (IF v[2] >= n THEN "T" ELSE "F") ELSE "E"

\* v > n: "T", "F", or "E" when Python raises TypeError (None > int, str > int, list > int)
PyGt(v, n) ==
    IF v[1] = "num" THEN (IF v[2] > n THEN "T" ELSE "F") ELSE "E"

\* a or b on comparison outcomes: b is evaluated only when a is false
PyOr(a, b) == IF a = "F" THEN b ELSE a

\* len(v): defined for lists and strings; TypeError otherwise
PyLenOk(v) == v[1] \in {"list", "str"}
PyLen(v) == IF v[1] = "list" THEN Len(v[2]) ELSE 0

\* x in v for a string x: membership for a list, TypeError for None and numbers
PyInOk(v) == v[1] \in {"list", "str"}
PyIn(x, v) == v[1] = "list" /\ \E i \in 1..Len(v[2]) : v[2][i] = x

Raise(h) == [raised |-> TRUE, val |-> <<"exc">>, h |-> h]
Return(v, h) == [raised |-> FALSE, val |-> v, h |-> h]

-----------------------------------------------------------------------------
(* HTTP responses.  status "ok" is a 200 whose body parses; "bad_json" is  *)
(* a 200 whose body does not parse (response.json() raises); "http_error"  *)
(* is any other status; "timeout" is requests raising.                     *)

FailStatus == {"timeout", "http_error", "bad_json"}

\* a JSON body that is an object, by its fields; shape "non_object" is a JSON array
EmptyObject(fields) == [f \in fields \cup {"shape"} |-> IF f = "shape" THEN Str("object") ELSE Missing]
IsObject(body) == body["shape"] = Str("object")
\* truthiness of a parsed body: {} is falsy, a non-empty array or object is truthy
BodyTruthy(body) == ~IsObject(body) \/ \E f \in DOMAIN body : f # "shape" /\ body[f] # Missing

-----------------------------------------------------------------------------
(* base_resource_handler.py                                                *)

CacheKeys == {"hf_api_data", "github_api_data", "size_mb", "license_score"}
None == <<"none">>
EmptyCache == [k \in CacheKeys |-> None]

BaseResourceHandler_init(kind, url, id) ==
    [kind |-> kind, url |-> url, id |-> id, cache |-> EmptyCache]

cache_get(h, key) == h.cache[key]
cache_set(h, key, value) == [h EXCEPT !.cache[key] = value]

Lower(s) ==
    CASE s = "MIT" -> "mit"
      [] s = "Apache-2.0" -> "apache-2.0"
      [] s = "HuggingFace.co" -> "huggingface.co"
      [] s = "Datasets" -> "datasets"
      [] OTHER -> s

AcceptedLicenses ==
    {"mit", "mit license", "apache", "apache-2.0", "apache 2.0", "apache license",
     "bsd", "bsd-2-clause", "bsd-3-clause", "bsd license",
     "gpl-2.0", "gpl-2.0-only", "gpl-2.0-or-later", "gplv2",
     "gpl-3.0", "gpl-3.0-only", "gpl-3.0-or-later", "gplv3",
     "lgpl-2.1", "lgpl-2.1-only", "lgpl-2.1-or-later", "lgplv2.1",
     "lgpl-3.0", "lgpl-3.0-only", "lgpl-3.0-or-later", "lgplv3",
     "cc0", "cc0-1.0", "creative commons zero", "unlicense", "public domain"}

parse_license_identifier(license_id) ==
    IF license_id = "" THEN Zero
    ELSE IF Lower(license_id) \in AcceptedLicenses THEN One ELSE Zero

\* the readme text is held by its features; text_license says whether one of the
\* accepted free-text patterns occurs somewhere in it
parse_license_from_text(text) ==
    IF text.empty THEN Zero
    ELSE IF text.text_license THEN One ELSE Zero

-----------------------------------------------------------------------------
(* URLs.  A URL string is held by what urlparse makes of it: whether it    *)
(* parses at all (urlparse raises ValueError on "http://[x"), its netloc   *)
(* (host, empty when the string has no "//"), the segments of its path and *)
(* whether the path ends with a slash.  path.strip('/').split('/') gives   *)
(* the segments, or [''] for an empty path.                               *)

path_parts(url) == IF url.segs = <<>> THEN <<"">> ELSE url.segs

-----------------------------------------------------------------------------
(* handlers/model_handler.py                                               *)

\* an identifier "a/b" is held as <<"a", "b">>, the empty identifier "" as <<>>
ModelHandler_extract_model_id(url) ==
    LET parts == path_parts(url)
    IN  IF Len(parts) >= 2 THEN <<parts[1], parts[2]>> ELSE <<>>

ModelHandler_init(url) ==
    BaseResourceHandler_init("MODEL", url, ModelHandler_extract_model_id(url))

HubFields == {"downloads", "likes", "tags", "cardData", "siblings", "description"}

ModelHandler_get_huggingface_api_data(h, up) ==
    LET cached == cache_get(h, "hf_api_data")
        resp == up.models[h.id].api
    IN  IF cached # None /\ BodyTruthy(cached[2]) THEN Return(cached[2], h)
        ELSE IF resp.status = "ok"
             THEN Return(resp.body, cache_set(h, "hf_api_data", <<"body", resp.body>>))
             ELSE Return(EmptyObject(HubFields), h)

ModelHandler_get_model_files(h, up) ==
    LET resp == up.models[h.id].tree
    IN  IF resp.status = "ok" THEN resp.files ELSE <<>>

\* a file entry is the JSON value of its 'size' key (<<"missing">>: no such key;
\* <<"nondict">>: the entry is not an object).  Sizes are given in units of 2^20
\* bytes, so total_size / (1024 * 1024) is their sum.
FileCounts(f) == f[1] \notin {"missing", "nondict"}

RECURSIVE TotalSize(_)
TotalSize(files) ==
    IF files = <<>> THEN 0
    ELSE (IF FileCounts(files[1]) THEN files[1][2] ELSE 0) + TotalSize(Tail(files))

\* the loop over the files and what follows it
SizeOfFiles(h, files) ==
    IF \E i \in 1..Len(files) : FileCounts(files[i]) /\ files[i][1] # "num" THEN Raise(h)
    ELSE Return(TotalSize(files), cache_set(h, "size_mb", <<"num", TotalSize(files)>>))

ModelHandler_get_size_mb(h, up) ==
    IF cache_get(h, "size_mb") # None THEN Return(cache_get(h, "size_mb")[2], h)
    ELSE SizeOfFiles(h, ModelHandler_get_model_files(h, up))

ModelHandler_has_performance_benchmarks(h, up) ==
    LET resp == up.models[h.id].readme
    IN  IF resp.status = "ok" THEN Return(resp.text.bench, h) ELSE Return(FALSE, h)

\* returns <<score, found>>
ModelHandler_parse_license_from_metadata(text) ==
    IF text.front # "none" /\ ~text.lead_ws
    THEN IF text.front = "license"
         THEN <<parse_license_identifier(text.license_value), TRUE>>
         ELSE <<Zero, FALSE>>
    ELSE <<Zero, FALSE>>

\* the choice between the front matter's answer <<score, found>> and the free text
LicenseOfReadme(text, meta) ==
    IF ~meta[2] /\ text.front = "none" THEN parse_license_from_text(text)
    ELSE IF ~meta[2] THEN Zero
    ELSE meta[1]

ModelHandler_get_license_from_local_readme(h, up) ==
    IF up.models[h.id].readme.status = "ok"
    THEN LicenseOfReadme(up.models[h.id].readme.text,
                         ModelHandler_parse_license_from_metadata(up.models[h.id].readme.text))
    ELSE Zero

StoreLicense(h, score) == Return(score, cache_set(h, "license_score", <<"num", score>>))

ModelHandler_get_license_score(h, up) ==
    IF cache_get(h, "license_score") # None THEN Return(cache_get(h, "license_score")[2], h)
    ELSE StoreLicense(h, ModelHandler_get_license_from_local_readme(h, up))

ModelHandler_get_documentation_score(h, up) ==
    LET resp == up.models[h.id].readme
        t == resp.text
        score == (IF t.long THEN 3 ELSE 0) + (IF t.usage THEN 3 ELSE 0)
                 + (IF t.example THEN 2 ELSE 0) + (IF t.training THEN 2 ELSE 0)
    IN  IF resp.status = "ok" THEN Return(MinOne(score), h) ELSE Return(Zero, h)

\* r is what get_huggingface_api_data returned
ModelContributors(r) ==
    LET api_data == r.val
        downloads == PyGet(api_data["downloads"], Num(0))
        likes == PyGet(api_data["likes"], Num(0))
        c1 == PyOr(PyGt(downloads, 10000), PyGt(likes, 100))
        c2 == PyOr(PyGt(downloads, 1000), PyGt(likes, 20))
        c3 == PyOr(PyGt(downloads, 100), PyGt(likes, 5))
    IN  IF ~IsObject(api_data) THEN Raise(r.h)
        ELSE IF c1 = "E" THEN Raise(r.h)
        ELSE IF c1 = "T" THEN Return(10, r.h)
        ELSE IF c2 = "E" THEN Raise(r.h)
        ELSE IF c2 = "T" THEN Return(5, r.h)
        ELSE IF c3 = "E" THEN Raise(r.h)
        ELSE IF c3 = "T" THEN Return(2, r.h)
        ELSE Return(1, r.h)

ModelHandler_get_contributor_count(h, up) ==
    ModelContributors(ModelHandler_get_huggingface_api_data(h, up))

-----------------------------------------------------------------------------
(* handlers/dataset_handler.py                                             *)

DatasetHandler_extract_dataset_id(url) ==
    LET parts == path_parts(url)
    IN  IF Len(parts) >= 2 /\ parts[1] = "datasets"
        THEN (IF Len(parts) > 2 THEN <<parts[2], parts[3]>> ELSE <<parts[2]>>)
        ELSE <<>>

DatasetHandler_init(url) ==
    BaseResourceHandler_init("DATASET", url, DatasetHandler_extract_dataset_id(url))

DatasetHandler_get_huggingface_api_data(h, up) ==
    LET cached == cache_get(h, "hf_api_data")
        resp == up.datasets[h.id].api
    IN  IF cached # None /\ BodyTruthy(cached[2]) THEN Return(cached[2], h)
        ELSE IF resp.status = "ok"
             THEN Return(resp.body, cache_set(h, "hf_api_data", <<"body", resp.body>>))
             ELSE Return(EmptyObject(HubFields), h)

DatasetEvaluationTags(r) ==
    LET api_data == r.val
        tags == PyGet(api_data["tags"], List(<<>>))
    IN  IF ~IsObject(api_data) THEN Raise(r.h)
        ELSE IF ~PyInOk(tags) THEN Raise(r.h)
        ELSE Return(PyIn(Str("evaluation"), tags) \/ PyIn(Str("benchmark"), tags), r.h)

DatasetHandler_has_evaluation_dataset(h, up) ==
    DatasetEvaluationTags(DatasetHandler_get_huggingface_api_data(h, up))

DatasetQuality(r) ==
    LET api_data == r.val
        downloads == PyGet(api_data["downloads"], Num(0))
        tags == PyGet(api_data["tags"], List(<<>>))
        siblings == PyGet(api_data["siblings"], List(<<>>))
        s1 == IF PyTruthy(api_data["cardData"]) THEN 3 ELSE 0
        s2 == IF PyGt(downloads, 1000) = "T" THEN 3
              ELSE IF PyGt(downloads, 100) = "T" THEN 2
              ELSE IF PyGt(downloads, 10) = "T" THEN 1
              ELSE 0
        s3 == IF PyLen(tags) > 2 THEN 2 ELSE 0
        s4 == IF PyLen(siblings) > 1 THEN 2 ELSE 0
    IN  IF ~IsObject(api_data) THEN Raise(r.h)
        ELSE IF PyGt(downloads, 1000) = "E" THEN Raise(r.h)
        ELSE IF ~PyLenOk(tags) THEN Raise(r.h)
        ELSE IF ~PyLenOk(siblings) THEN Raise(r.h)
        ELSE Return(MinOne(s1 + s2 + s3 + s4), r.h)

DatasetHandler_get_quality_score(h, up) ==
    DatasetQuality(DatasetHandler_get_huggingface_api_data(h, up))

DatasetHandler_get_license_score(h, up) == Return(Zero, h)

DatasetDocumentation(r) ==
    LET api_data == r.val
        card_data == PyGet(api_data["cardData"], Obj(FALSE))
        tags == PyGet(api_data["tags"], List(<<>>))
        s1 == IF PyTruthy(card_data) THEN 5 ELSE 0
        s2 == IF PyTruthy(api_data["description"]) THEN 3 ELSE 0
        s3 == IF PyLen(tags) > 0 THEN 2 ELSE 0
    IN  IF ~IsObject(api_data) THEN Raise(r.h)
        ELSE IF ~PyLenOk(tags) THEN Raise(r.h)
        ELSE Return(MinOne(s1 + s2 + s3), r.h)

DatasetHandler_get_documentation_score(h, up) ==
    DatasetDocumentation(DatasetHandler_get_huggingface_api_data(h, up))

DatasetContributors(r) ==
    LET api_data == r.val
        downloads == PyGet(api_data["downloads"], Num(0))
    IN  IF ~IsObject(api_data) THEN Raise(r.h)
        ELSE IF PyGt(downloads, 10000) = "E" THEN Raise(r.h)
        ELSE IF PyGt(downloads, 10000) = "T" THEN Return(5, r.h)
        ELSE IF PyGt(downloads, 1000) = "T" THEN Return(3, r.h)
        ELSE Return(1, r.h)

DatasetHandler_get_contributor_count(h, up) ==
    DatasetContributors(DatasetHandler_get_huggingface_api_data(h, up))

-----------------------------------------------------------------------------
(* handlers/code_handler.py                                                *)

CodeHandler_extract_repo_path(url) ==
    LET parts == path_parts(url)
    IN  IF Len(parts) >= 2 THEN <<parts[1], parts[2]>> ELSE <<>>

CodeHandler_init(url) ==
    BaseResourceHandler_init("CODE", url, CodeHandler_extract_repo_path(url))

RepoFields == {"has_readme", "stargazers_count", "updated_at", "has_issues",
               "description", "has_wiki", "homepage"}

\* status "unauthorized" is the 401 answer to a bad token
CodeHandler_get_github_api_data(h, up) ==
    LET cached == cache_get(h, "github_api_data")
        resp == up.repos[h.id].api
    IN  IF cached # None /\ BodyTruthy(cached[2]) THEN Return(cached[2], h)
        ELSE IF resp.status = "ok"
             THEN Return(resp.body, cache_set(h, "github_api_data", <<"body", resp.body>>))
             ELSE IF resp.status = "unauthorized" THEN Return(EmptyObject(RepoFields), h)
             ELSE Return(EmptyObject(RepoFields), h)

CodeHandler_has_evaluation_code(h, up) ==
    LET resp == up.repos[h.id].search
        total == PyGet(resp.body["total_count"], Num(0))
    IN  IF resp.status = "ok" /\ IsObject(resp.body) /\ PyGt(total, 0) = "T"
        THEN Return(TRUE, h)
        ELSE Return(FALSE, h)

\* sub in s, for the timestamps of the model: a timestamp starts with its year
StrContains(sub, s) ==
    <<sub, s>> \in {<<"2023", "2023-06-01T00:00:00Z">>, <<"2024", "2024-06-01T00:00:00Z">>}

\* ('2024' in updated_at) for a JSON value: TypeError unless it is a string
InUpdatedAt(year, v) == IF v[1] = "str" THEN (IF StrContains(year, v[2]) THEN "T" ELSE "F") ELSE "E"

\* updated_at and '2024' in updated_at or '2023' in updated_at
RecentActivity(updated_at) ==
    LET first == IF PyTruthy(updated_at) THEN InUpdatedAt("2024", updated_at) ELSE "F"
    IN  PyOr(first, InUpdatedAt("2023", updated_at))

CodeQuality(r) ==
    LET api_data == r.val
        stars == PyGet(api_data["stargazers_count"], Num(0))
        updated_at == PyGet(api_data["updated_at"], Str(""))
        s1 == IF PyTruthy(api_data["has_readme"]) THEN 3 ELSE 0
        s2 == IF PyGt(stars, 100) = "T" THEN 4
              ELSE IF PyGt(stars, 10) = "T" THEN 3
              ELSE IF PyGt(stars, 0) = "T" THEN 2
              ELSE 0
        s3 == IF RecentActivity(updated_at) = "T" THEN 3 ELSE 0
        s4 == IF PyTruthy(api_data["has_issues"]) THEN 2 ELSE 0
    IN  IF ~IsObject(api_data) THEN Raise(r.h)
        ELSE IF PyGt(stars, 100) = "E" THEN Raise(r.h)
        ELSE IF RecentActivity(updated_at) = "E" THEN Raise(r.h)
        ELSE Return(MinOne(s1 + s2 + s3 + s4), r.h)

CodeHandler_get_code_quality_score(h, up) ==
    CodeQuality(CodeHandler_get_github_api_data(h, up))

CodeHandler_get_license_score(h, up) == Return(Zero, h)

CodeDocumentation(r) ==
    LET api_data == r.val
        s1 == IF PyTruthy(api_data["description"]) THEN 3 ELSE 0
        s2 == IF PyTruthy(api_data["has_readme"]) THEN 4 ELSE 0
        s3 == IF PyTruthy(api_data["has_wiki"]) THEN 2 ELSE 0
        s4 == IF PyTruthy(api_data["homepage"]) THEN 1 ELSE 0
    IN  IF ~IsObject(api_data) THEN Raise(r.h)
        ELSE Return(MinOne(s1 + s2 + s3 + s4), r.h)

CodeHandler_get_documentation_score(h, up) ==
    CodeDocumentation(CodeHandler_get_github_api_data(h, up))

\* the contributors body is the JSON value the endpoint returned
CodeHandler_get_contributor_count(h, up) ==
    LET resp == up.repos[h.id].contributors
    IN  IF resp.status = "ok" /\ PyLenOk(resp.body)
        THEN Return(PyLen(resp.body), h)
        ELSE Return(1, h)

-----------------------------------------------------------------------------
(* The capability set of a handle, by its variant                          *)

get_license_score(h, up) ==
    CASE h.kind = "MODEL" -> ModelHandler_get_license_score(h, up)
      [] h.kind = "DATASET" -> DatasetHandler_get_license_score(h, up)
      [] h.kind = "CODE" -> CodeHandler_get_license_score(h, up)

get_documentation_score(h, up) ==
    CASE h.kind = "MODEL" -> ModelHandler_get_documentation_score(h, up)
      [] h.kind = "DATASET" -> DatasetHandler_get_documentation_score(h, up)
      [] h.kind = "CODE" -> CodeHandler_get_documentation_score(h, up)

get_contributor_count(h, up) ==
    CASE h.kind = "MODEL" -> ModelHandler_get_contributor_count(h, up)
      [] h.kind = "DATASET" -> DatasetHandler_get_contributor_count(h, up)
      [] h.kind = "CODE" -> CodeHandler_get_contributor_count(h, up)

-----------------------------------------------------------------------------
(* metrics/*.py.  A resource mapping is [MODEL, DATASET, CODE -> sequence  *)
(* of handles]; a category absent from the Python dict is the empty        *)
(* sequence here (every metric reads it with .get or with `in ... and`).   *)
(* calculate returns [raised, score, latency, res]: res is the mapping     *)
(* with the handles as the calls left them (their caches).  The clock      *)
(* advances by d milliseconds in every handle method call and not          *)
(* otherwise, so a latency is d times the number of calls made.            *)

Scalar(r) == [kind |-> "scalar", v |-> r, d |-> <<>>]
\* a mapping-shaped score: its items in insertion order
Dict(items) == [kind |-> "dict", v |-> Zero, d |-> items]

MetricReturn(score, latency, res) ==
    [raised |-> FALSE, score |-> score, latency |-> latency, res |-> res]
\* calculate raised: there is no score and no latency
NoScore == [kind |-> "exception", v |-> Zero, d |-> <<>>]
MetricRaise(res) ==
    [raised |-> TRUE, score |-> NoScore, latency |-> 0, res |-> res]

AllTypes == <<"MODEL", "DATASET", "CODE">>

SeqToSet(q) == {q[i] : i \in 1..Len(q)}

\* the handles of the given categories, in the order the loops visit them
RECURSIVE HandlesOf(_, _)
HandlesOf(res, types) ==
    IF types = <<>> THEN <<>> ELSE res[types[1]] \o HandlesOf(res, Tail(types))

\* for url_type in required_url_types(): for resource in resources[url_type]:
\* what the call C returned on every handle, in the order of the visit
RECURSIVE CallAll(_, _, _)
CallAll(hs, C(_, _), up) ==
    IF hs = <<>> THEN <<>> ELSE <<C(hs[1], up)>> \o CallAll(Tail(hs), C, up)

CallEach(res, types, C(_, _), up) == CallAll(HandlesOf(res, types), C, up)

\* the values returned, and the handles as the calls left them
RECURSIVE Vals(_)
Vals(rs) == IF rs = <<>> THEN <<>> ELSE <<rs[1].val>> \o Vals(Tail(rs))

RECURSIVE HandlesAfter(_)
HandlesAfter(rs) == IF rs = <<>> THEN <<>> ELSE <<rs[1].h>> \o HandlesAfter(Tail(rs))

\* the number of handles the visit passes before it reaches category t
RECURSIVE Before(_, _, _)
Before(res, types, t) ==
    IF types = <<>> \/ types[1] = t THEN 0
    ELSE Len(res[types[1]]) + Before(res, Tail(types), t)

\* res with every visited handle as its call left it; rs is what CallEach gave
Visited(res, types, t, hs) ==
    IF t \in SeqToSet(types)
    THEN SubSeq(hs, Before(res, types, t) + 1, Before(res, types, t) + Len(res[t]))
    ELSE res[t]

Handled(res, types, rs) ==
    [MODEL |-> Visited(res, types, "MODEL", HandlesAfter(rs)),
     DATASET |-> Visited(res, types, "DATASET", HandlesAfter(rs)),
     CODE |-> Visited(res, types, "CODE", HandlesAfter(rs))]

\* try: return <call> / except Exception: return default
Caught(r, default) == IF r.raised THEN Return(default, r.h) ELSE r

\* ---- license_metric.py
LicenseMetric_required_url_types == <<"MODEL">>

LicenseMetric_evaluate_resource_license(h, up) == Caught(get_license_score(h, up), Zero)

\* the score of the last handle visited, not of the first
LicenseMetric_last_score(res, d, scores) ==
    MetricReturn(Scalar(IF Len(scores) > 0 THEN scores[Len(scores)].val ELSE Zero),
                 d * Len(scores), Handled(res, LicenseMetric_required_url_types, scores))

\* scores is the list the loop appended to, with the handles
LicenseMetric_final_score(res, d, scores) ==
    MetricReturn(Scalar(IF Len(scores) > 0 THEN scores[1].val ELSE Zero), d * Len(scores),
                 Handled(res, LicenseMetric_required_url_types, scores))

LicenseMetric_calculate(res, up, d) ==
    LicenseMetric_final_score(res, d,
        CallEach(res, LicenseMetric_required_url_types,
                 LicenseMetric_evaluate_resource_license, up))

\* ---- size_score_metric.py
SizeScoreMetric_required_url_types == <<"MODEL">>

SizeFallback ==
    Dict(<<<<"raspberry_pi", Zero>>, <<"jetson_nano", Zero>>,
           <<"desktop_pc", Tenths(5)>>, <<"aws_server", Tenths(5)>>>>)

SizeDict(mb) ==
    Dict(<<
        <<"raspberry_pi", IF mb < 100 THEN One ELSE IF mb < 500 THEN Tenths(5) ELSE Zero>>,
        <<"jetson_nano", IF mb < 1000 THEN One ELSE IF mb < 2000 THEN Tenths(7) ELSE Tenths(3)>>,
        <<"desktop_pc", IF mb < 5000 THEN One ELSE IF mb < 10000 THEN Tenths(8) ELSE Tenths(5)>>,
        <<"aws_server", IF mb < 20000 THEN One ELSE Tenths(9)>> >>)

\* the failure answered with the scalar 0.0 instead of the fallback mapping
SizeOrZero(r) ==
    IF r.raised THEN Return(Scalar(Zero), r.h) ELSE Return(SizeDict(r.val), r.h)

\* r is what get_size_mb returned
SizeOrFallback(r) ==
    IF r.raised THEN Return(SizeFallback, r.h) ELSE Return(SizeDict(r.val), r.h)

SizeScoreMetric_calculate_hardware_compatibility(h, up) ==
    SizeOrFallback(ModelHandler_get_size_mb(h, up))

\* the return of a calculate that asked the first handle of category t one thing
FirstAsked(res, t, d, score, h) == MetricReturn(score, d, [res EXCEPT ![t][1] = h])

SizeScoreMetric_size_dict(res, d, r) == FirstAsked(res, "MODEL", d, r.val, r.h)

SizeScoreMetric_calculate(res, up, d) ==
    IF res["MODEL"] = <<>> THEN MetricReturn(Scalar(Zero), 0, res)
    ELSE SizeScoreMetric_size_dict(res, d,
             SizeScoreMetric_calculate_hardware_compatibility(res["MODEL"][1], up))

\* ---- ramp_up_time_metric.py
RampUpTimeMetric_required_url_types == AllTypes

RampUpTimeMetric_evaluate_documentation_quality(h, up) ==
    Caught(get_documentation_score(h, up), Zero)

RampUpTimeMetric_final_score(res, d, documentation_scores) ==
    MetricReturn(
        Scalar(IF Len(documentation_scores) > 0
               THEN RDiv(RSum(Vals(documentation_scores)),
                         <<Len(documentation_scores), 1>>)
               ELSE Zero),
        d * Len(documentation_scores),
        Handled(res, RampUpTimeMetric_required_url_types, documentation_scores))

RampUpTimeMetric_calculate(res, up, d) ==
    RampUpTimeMetric_final_score(res, d,
        CallEach(res, RampUpTimeMetric_required_url_types,
                 RampUpTimeMetric_evaluate_documentation_quality, up))

\* ---- bus_factor_metric.py
\* the hub's two categories only
ModelAndDataset == <<"MODEL", "DATASET">>

BusFactorMetric_required_url_types == AllTypes

BusFactorMetric_get_contributor_count(h, up) == Caught(get_contributor_count(h, up), 1)

\* the tiers with 0.0 below the lowest one
BusFactorFloorZero(sum, n) ==
    IF n > 0 /\ sum >= 10 * n THEN One
    ELSE IF n > 0 /\ sum >= 5 * n THEN Tenths(8)
    ELSE IF n > 0 /\ sum >= 2 * n THEN Tenths(5)
    ELSE Zero

\* the score of sum / n contributors on average (0 when there is no handle)
BusFactorScore(sum, n) ==
    IF n > 0 /\ sum >= 10 * n THEN One
    ELSE IF n > 0 /\ sum >= 5 * n THEN Tenths(8)
    ELSE IF n > 0 /\ sum >= 2 * n THEN Tenths(5)
    ELSE Tenths(2)

BusFactorMetric_final_score(res, d, contributor_counts) ==
    MetricReturn(
        Scalar(BusFactorScore(
            ISum(Vals(contributor_counts)),
            Len(contributor_counts))),
        d * Len(contributor_counts),
        Handled(res, BusFactorMetric_required_url_types, contributor_counts))

BusFactorMetric_calculate(res, up, d) ==
    BusFactorMetric_final_score(res, d,
        CallEach(res, BusFactorMetric_required_url_types,
                 BusFactorMetric_get_contributor_count, up))

\* ---- performance_claims_metric.py
PerformanceClaimsMetric_required_url_types == AllTypes

\* a check that was not made: the flag keeps its initial False
NotAsked == Return(FALSE, None)

Asked(res, t) == IF res[t] # <<>> THEN 1 ELSE 0

\* res with the first handle of category t as the call r left it
FirstHandled(res, t, r) == IF res[t] # <<>> THEN [res EXCEPT ![t][1] = r.h] ELSE res

\* rm, rc, rd: what the three checks returned.  Only the dataset check can raise,
\* and nothing in calculate catches it
PerformanceClaimsMetric_final_score(res, d, rm, rc, rd) ==
    IF rd.raised
    THEN MetricRaise(FirstHandled(FirstHandled(FirstHandled(res, "MODEL", rm), "CODE", rc),
                                  "DATASET", rd))
    ELSE MetricReturn(
             Scalar(MinOne((IF rm.val THEN 5 ELSE 0) + (IF rc.val THEN 3 ELSE 0)
                           + (IF rd.val THEN 2 ELSE 0))),
             d * (Asked(res, "MODEL") + Asked(res, "CODE") + Asked(res, "DATASET")),
             FirstHandled(FirstHandled(FirstHandled(res, "MODEL", rm), "CODE", rc),
                          "DATASET", rd))

PerformanceClaimsMetric_calculate(res, up, d) ==
    PerformanceClaimsMetric_final_score(res, d,
        IF res["MODEL"] # <<>>
        THEN ModelHandler_has_performance_benchmarks(res["MODEL"][1], up) ELSE NotAsked,
        IF res["CODE"] # <<>>
        THEN CodeHandler_has_evaluation_code(res["CODE"][1], up) ELSE NotAsked,
        IF res["DATASET"] # <<>>
        THEN DatasetHandler_has_evaluation_dataset(res["DATASET"][1], up) ELSE NotAsked)

\* ---- dataset_and_code_score_metric.py
DatasetAndCodeScoreMetric_required_url_types == <<"DATASET", "CODE">>

DatasetAndCodeScoreMetric_calculate(res, up, d) ==
    LET dataset_available == res["DATASET"] # <<>>
        code_available == res["CODE"] # <<>>
        score == Tenths((IF dataset_available THEN 6 ELSE 0) + (IF code_available THEN 4 ELSE 0))
    IN  MetricReturn(Scalar(score), 0, res)

\* ---- dataset_quality_metric.py
DatasetQualityMetric_required_url_types == <<"DATASET">>

DatasetQualityMetric_evaluate_dataset_quality(h, up) ==
    Caught(DatasetHandler_get_quality_score(h, up), Zero)

DatasetQualityMetric_quality_score(res, d, r) ==
    FirstAsked(res, "DATASET", d, Scalar(r.val), r.h)

DatasetQualityMetric_calculate(res, up, d) ==
    IF res["DATASET"] = <<>> THEN MetricReturn(Scalar(Zero), 0, res)
    ELSE DatasetQualityMetric_quality_score(res, d,
             DatasetQualityMetric_evaluate_dataset_quality(res["DATASET"][1], up))

\* ---- code_quality_metric.py
CodeQualityMetric_required_url_types == <<"CODE">>

CodeQualityMetric_evaluate_code_quality(h, up) ==
    Caught(CodeHandler_get_code_quality_score(h, up), Zero)

CodeQualityMetric_quality_score(res, d, r) ==
    FirstAsked(res, "CODE", d, Scalar(r.val), r.h)

CodeQualityMetric_calculate(res, up, d) ==
    IF res["CODE"] = <<>> THEN MetricReturn(Scalar(Zero), 0, res)
    ELSE CodeQualityMetric_quality_score(res, d,
             CodeQualityMetric_evaluate_code_quality(res["CODE"][1], up))

\* ---- metrics.py: the registry, in its order
METRIC_CLASSES ==
    <<"license", "size_score", "ramp_up_time", "bus_factor", "performance_claims",
      "dataset_and_code_score", "dataset_quality", "code_quality">>

MetricNames == {METRIC_CLASSES[i] : i \in 1..Len(METRIC_CLASSES)}

required_url_types(m) ==
    CASE m = "license" -> LicenseMetric_required_url_types
      [] m = "size_score" -> SizeScoreMetric_required_url_types
      [] m = "ramp_up_time" -> RampUpTimeMetric_required_url_types
      [] m = "bus_factor" -> BusFactorMetric_required_url_types
      [] m = "performance_claims" -> PerformanceClaimsMetric_required_url_types
      [] m = "dataset_and_code_score" -> DatasetAndCodeScoreMetric_required_url_types
      [] m = "dataset_quality" -> DatasetQualityMetric_required_url_types
      [] m = "code_quality" -> CodeQualityMetric_required_url_types

calculate(m, res, up, d) ==
    CASE m = "license" -> LicenseMetric_calculate(res, up, d)
      [] m = "size_score" -> SizeScoreMetric_calculate(res, up, d)
      [] m = "ramp_up_time" -> RampUpTimeMetric_calculate(res, up, d)
      [] m = "bus_factor" -> BusFactorMetric_calculate(res, up, d)
      [] m = "performance_claims" -> PerformanceClaimsMetric_calculate(res, up, d)
      [] m = "dataset_and_code_score" -> DatasetAndCodeScoreMetric_calculate(res, up, d)
      [] m = "dataset_quality" -> DatasetQualityMetric_calculate(res, up, d)
      [] m = "code_quality" -> CodeQualityMetric_calculate(res, up, d)

-----------------------------------------------------------------------------
(* url_classifier.py                                                       *)

URLType == <<"MODEL", "DATASET", "CODE", "UNKNOWN">>

\* sub in host, for the (lower-case) hosts of the model
HostContains(sub, host) ==
    CASE sub = "huggingface.co" -> host \in {"huggingface.co", "www.huggingface.co"}
      [] sub = "github.com" -> host \in {"github.com", "gist.github.com"}

\* "/datasets/" in path.lower(): a segment "datasets" that a slash follows
PathHasDatasets(url) ==
    \E i \in 1..Len(url.segs) :
        Lower(url.segs[i]) = "datasets" /\ (i < Len(url.segs) \/ url.slash)

\* what the call gives when urlparse raises: nothing in classify_url catches it
ValueError == "ValueError"

classify_url(url) ==
    IF ~url.parses THEN ValueError
    ELSE IF HostContains("huggingface.co", Lower(url.host))
    THEN (IF PathHasDatasets(url) THEN "DATASET" ELSE "MODEL")
    ELSE IF HostContains("github.com", Lower(url.host)) THEN "CODE"
    ELSE "UNKNOWN"

\* the URL put in front of the list of its category
GroupedInFront(grouped, url) ==
    IF classify_url(url) = ValueError THEN grouped
    ELSE [grouped EXCEPT ![classify_url(url)] = <<url>> \o @]

\* grouped[url_type].append(url); where classify_url raises, see group_raises
Grouped(grouped, url) ==
    IF classify_url(url) = ValueError THEN grouped
    ELSE [grouped EXCEPT ![classify_url(url)] = Append(@, url)]

\* for url in urls
RECURSIVE GroupLoop(_, _)
GroupLoop(us, grouped) ==
    IF us = <<>> THEN grouped ELSE GroupLoop(Tail(us), Grouped(grouped, us[1]))

\* the mapping returned; the call raises when classify_url does on some URL
group_urls_by_type(us) ==
    GroupLoop(us, [t \in {URLType[i] : i \in 1..Len(URLType)} |-> <<>>])

group_raises(us) == \E i \in 1..Len(us) : classify_url(us[i]) = ValueError

-----------------------------------------------------------------------------
(* model_evaluator.py                                                      *)

\* the handles of the call before, kept for the next one
KeptHandlers(grouped_urls) ==
    IF calls = 0
    THEN [MODEL |-> [i \in 1..Len(grouped_urls["MODEL"]) |-> ModelHandler_init(grouped_urls["MODEL"][i])],
          DATASET |-> [i \in 1..Len(grouped_urls["DATASET"]) |-> DatasetHandler_init(grouped_urls["DATASET"][i])],
          CODE |-> [i \in 1..Len(grouped_urls["CODE"]) |-> CodeHandler_init(grouped_urls["CODE"][i])]]
    ELSE resources

\* ModelHandler(url), DatasetHandler(url), CodeHandler(url)
NewHandler(t, url) ==
    CASE t = "MODEL" -> ModelHandler_init(url)
      [] t = "DATASET" -> DatasetHandler_init(url)
      [] t = "CODE" -> CodeHandler_init(url)

\* the constructors parse the URL for the identifier: urlparse raises ValueError
\* on a string it rejects
init_raises(url) == ~url.parses

\* a failure that empties the list built so far
TryAppendOrReset(t, handlers, url) ==
    IF init_raises(url) THEN <<>> ELSE Append(handlers, NewHandler(t, url))

\* try: handler = ...Handler(url); handlers.append(handler) / except Exception: log
TryAppend(t, handlers, url) ==
    IF init_raises(url) THEN handlers ELSE Append(handlers, NewHandler(t, url))

\* for url in grouped_urls[t]
RECURSIVE HandlersLoop(_, _, _)
HandlersLoop(t, us, handlers) ==
    IF us = <<>> THEN handlers ELSE HandlersLoop(t, Tail(us), TryAppend(t, handlers, us[1]))

\* a category without handles has no key in the Python dict, which is the empty
\* sequence here
create_resource_handlers(grouped_urls) ==
    [MODEL |-> HandlersLoop("MODEL", grouped_urls["MODEL"], <<>>),
     DATASET |-> HandlersLoop("DATASET", grouped_urls["DATASET"], <<>>),
     CODE |-> HandlersLoop("CODE", grouped_urls["CODE"], <<>>)]

\* available_resources: the categories the metric requires, [] for a missing one
Required(m, t) == t \in SeqToSet(required_url_types(m))

available_resources(m, res) ==
    [MODEL |-> IF Required(m, "MODEL") THEN res["MODEL"] ELSE <<>>,
     DATASET |-> IF Required(m, "DATASET") THEN res["DATASET"] ELSE <<>>,
     CODE |-> IF Required(m, "CODE") THEN res["CODE"] ELSE <<>>]

\* the handles are shared objects: what a metric's calls leave in the handles of
\* its categories is seen through the resource group
WriteBack(m, res, after) ==
    [MODEL |-> IF Required(m, "MODEL") THEN after["MODEL"] ELSE res["MODEL"],
     DATASET |-> IF Required(m, "DATASET") THEN after["DATASET"] ELSE res["DATASET"],
     CODE |-> IF Required(m, "CODE") THEN after["CODE"] ELSE res["CODE"]]

\* a metric result: {"score": ..., "latency": ...}
Result(score, latency) == [score |-> score, latency |-> latency]

\* the call without its try/except: what calculate gave goes through as it is
Unguarded(out) ==
    [failed |-> FALSE, raised |-> out.raised, ret |-> Result(out.score, out.latency),
     res |-> out.res]

\* try: return metric.calculate(resources) / except Exception: return 0.0, 0.
\* out is what calculate returned, or that it raised; the task itself never fails
Guarded(out) ==
    IF out.raised
    THEN [failed |-> FALSE, raised |-> TRUE, ret |-> Result(Scalar(Zero), 0), res |-> out.res]
    ELSE [failed |-> FALSE, raised |-> FALSE, ret |-> Result(out.score, out.latency),
          res |-> out.res]

\* returns [failed, raised, ret, res]
safe_calculate_metric(m, avail, up, d) == Guarded(calculate(m, avail, up, d))

Weights ==
    <<<<"license", Rat(20, 100)>>, <<"performance_claims", Rat(15, 100)>>,
      <<"ramp_up_time", Rat(15, 100)>>, <<"bus_factor", Rat(10, 100)>>,
      <<"size_score", Rat(10, 100)>>, <<"dataset_and_code_score", Rat(10, 100)>>,
      <<"dataset_quality", Rat(10, 100)>>, <<"code_quality", Rat(10, 100)>> >>

\* the score as the aggregation folds it: a mapping is averaged, {} counts 0.0
Flatten(score) ==
    IF score.kind = "dict"
    THEN (IF score.d # <<>>
          THEN RDiv(RSum([i \in 1..Len(score.d) |-> score.d[i][2]]), <<Len(score.d), 1>>)
          ELSE Zero)
    ELSE score.v

\* the turn that leaves the latency of a metric scoring 0.0 out of the total
NetStepScored(w, mr, acc) ==
    IF w[1] \in DOMAIN mr
    THEN <<RAdd(acc[1], RMul(Flatten(mr[w[1]].score), w[2])),
           RAdd(acc[2], w[2]),
           acc[3] + (IF Flatten(mr[w[1]].score) = Zero THEN 0 ELSE mr[w[1]].latency)>>
    ELSE acc

\* one turn of the loop over the weight table, for the entry w;
\* acc is <<weighted_sum, total_weight, total_latency>>
NetStep(w, mr, acc) ==
    IF w[1] \in DOMAIN mr
    THEN <<RAdd(acc[1], RMul(Flatten(mr[w[1]].score), w[2])),
           RAdd(acc[2], w[2]),
           acc[3] + mr[w[1]].latency>>
    ELSE acc

RECURSIVE NetLoop(_, _, _)
NetLoop(ws, mr, acc) ==
    IF ws = <<>> THEN acc
    ELSE Then(NetStep(ws[1], mr, acc), LAMBDA a : NetLoop(Tail(ws), mr, a))

\* the weighted sum, not divided by the weights that took part
Unnormalised(acc) == <<acc[1], acc[3]>>

\* what follows the loop
NetOf(acc) == <<IF ~RLe(acc[2], Zero) THEN RDiv(acc[1], acc[2]) ELSE Zero, acc[3]>>

\* returns <<net_score, total_latency>>
calculate_net_score(mr) == NetOf(NetLoop(Weights, mr, <<Zero, Zero, 0>>))

\* the result filed under the name at the position of its arrival
Misfiled(mr, m, ret) == (METRIC_CLASSES[Cardinality(DOMAIN mr) + 1] :> ret) @@ mr

\* no entry for a metric that came back with 0.0 and no latency
CollectedIfScored(mr, m, ret) ==
    IF ret = Result(Scalar(Zero), 0) THEN mr ELSE (m :> ret) @@ mr

\* metric_results[metric_name] = {"score": score, "latency": latency}
Collected(mr, m, ret) == (m :> ret) @@ mr

\* the state after the task of metric m was collected
After(acc, m, ret, handled) ==
    [mr |-> Collected(acc.mr, m, ret), res |-> WriteBack(m, acc.res, handled)]

\* the fan-out with its tasks run and collected one after the other in registry
\* order; acc is [mr, res], fut is what the task of ms[1] gave.  The actions
\* Start, Finish and Collect below are the same code with its threads.
RECURSIVE MetricsLoop(_, _, _, _)
RECURSIVE Joined(_, _, _, _, _)
Joined(ms, acc, up, d, fut) ==
    IF fut.failed
    THEN MetricsLoop(Tail(ms), After(acc, ms[1], Result(Scalar(Zero), 0), fut.res), up, d)
    ELSE MetricsLoop(Tail(ms), After(acc, ms[1], fut.ret, fut.res), up, d)

MetricsLoop(ms, acc, up, d) ==
    IF ms = <<>> THEN acc
    ELSE Joined(ms, acc, up, d,
                safe_calculate_metric(ms[1], available_resources(ms[1], acc.res), up, d))

calculate_metrics_parallel(res, up, d) ==
    MetricsLoop(METRIC_CLASSES, [mr |-> <<>>, res |-> res], up, d)

MetricGet(mr, m, default) == IF m \in DOMAIN mr THEN mr[m].score ELSE default
LatencyGet(mr, m) == IF m \in DOMAIN mr THEN mr[m].latency ELSE 0

ModelName(url) ==
    LET model_id == ModelHandler_init(url).id
    IN  IF model_id = <<>> THEN "unknown" ELSE model_id[Len(model_id)]

\* the result record; net is what _calculate_net_score returned
ResultRecord(model_url, mr, net) ==
    [name |-> ModelName(model_url),
     category |-> "MODEL",
     net_score |-> net[1],
     net_score_latency |-> net[2],
     score |-> [m \in MetricNames |->
                   MetricGet(mr, m, IF m = "size_score" THEN Dict(<<>>) ELSE Scalar(Zero))],
     latency |-> [m \in MetricNames |-> LatencyGet(mr, m)]]

BuildResult(model_url, mr) == ResultRecord(model_url, mr, calculate_net_score(mr))

Evaluated(model_url, fan) == [result |-> BuildResult(model_url, fan.mr), res |-> fan.res]

\* returns [result, res]
evaluate_single_model(model_url, res, up, d) ==
    Evaluated(model_url, calculate_metrics_parallel(res, up, d))

-----------------------------------------------------------------------------
(* The upstream services: what each endpoint answers, per identifier       *)

NonObject(fields) ==
    [f \in fields \cup {"shape"} |-> IF f = "shape" THEN Str("non_object") ELSE Missing]

HubBody(downloads, likes, tags, cardData, siblings, description) ==
    [shape |-> Str("object"), downloads |-> downloads, likes |-> likes, tags |-> tags,
     cardData |-> cardData, siblings |-> siblings, description |-> description]

RepoBody(has_readme, stars, updated_at, has_issues, description, has_wiki, homepage) ==
    [shape |-> Str("object"), has_readme |-> has_readme, stargazers_count |-> stars,
     updated_at |-> updated_at, has_issues |-> has_issues, description |-> description,
     has_wiki |-> has_wiki, homepage |-> homepage]

SearchBody(total_count) == [shape |-> Str("object"), total_count |-> total_count]

Text(front, lead_ws, license_value, text_license, long, usage, example, training, bench) ==
    [empty |-> FALSE, front |-> front, lead_ws |-> lead_ws, license_value |-> license_value,
     text_license |-> text_license, long |-> long, usage |-> usage, example |-> example,
     training |-> training, bench |-> bench]

NoText ==
    [empty |-> TRUE, front |-> "none", lead_ws |-> FALSE, license_value |-> "",
     text_license |-> FALSE, long |-> FALSE, usage |-> FALSE, example |-> FALSE,
     training |-> FALSE, bench |-> FALSE]

ApiOk(body) == [status |-> "ok", body |-> body]
HubFail(st) == [status |-> st, body |-> EmptyObject(HubFields)]
RepoFail(st) == [status |-> st, body |-> EmptyObject(RepoFields)]
TreeOk(files) == [status |-> "ok", files |-> files]
TreeFail(st) == [status |-> st, files |-> <<>>]
ReadmeOk(text) == [status |-> "ok", text |-> text]
ReadmeFail(st) == [status |-> st, text |-> NoText]
ListOk(body) == [status |-> "ok", body |-> body]
ListFail(st) == [status |-> st, body |-> Null]
SearchOk(body) == [status |-> "ok", body |-> body]
SearchFail(st) == [status |-> st, body |-> SearchBody(Missing)]

ModelResp(api, tree, readme) == [api |-> api, tree |-> tree, readme |-> readme]
DatasetResp(api) == [api |-> api]
CodeResp(api, contributors, search) ==
    [api |-> api, contributors |-> contributors, search |-> search]

\* every call to the service fails the same way
ModelDown(st) == ModelResp(HubFail(st), TreeFail(st), ReadmeFail(st))
DatasetDown(st) == DatasetResp(HubFail(st))
CodeDown(st) == CodeResp(RepoFail(st), ListFail(st), SearchFail(st))

Persons(n) == [i \in 1..n |-> Str("login")]

\* the answers the evaluation runs are checked against: the service is down, it
\* answers in full, or it answers 200 with nulls where the handlers expect values
FlowModelResps ==
    { ModelDown("timeout"),
      ModelResp(ApiOk(HubBody(Num(20000), Num(3), Missing, Missing, Missing, Missing)),
                TreeOk(<<Num(40), Num(50)>>),
                ReadmeOk(Text("license", FALSE, "mit", TRUE, TRUE, TRUE, TRUE, TRUE, TRUE))),
      ModelResp(ApiOk(HubBody(Null, Missing, Missing, Missing, Missing, Missing)),
                TreeOk(<<Num(6000), Null>>),
                ReadmeOk(Text("no_license", FALSE, "", TRUE, FALSE, TRUE, FALSE, FALSE, FALSE))) }

FlowDatasetResps ==
    { DatasetDown("timeout"),
      DatasetResp(ApiOk(HubBody(Num(20000), Missing, List(<<Str("evaluation"), Str("nlp"), Str("qa")>>),
                                Obj(TRUE), List(<<Str("a"), Str("b")>>), Str("a dataset")))),
      DatasetResp(ApiOk(HubBody(Num(50), Missing, Null, Obj(TRUE), Missing, Missing))) }

FlowCodeResps ==
    { CodeDown("timeout"),
      CodeResp(ApiOk(RepoBody(Bool(TRUE), Num(500), Str("2024-06-01T00:00:00Z"), Bool(TRUE),
                              Str("a repo"), Bool(TRUE), Str("https://example.com"))),
               ListOk(List(Persons(12))), SearchOk(SearchBody(Num(3)))),
      CodeResp(ApiOk(RepoBody(Bool(FALSE), Null, Null, Bool(TRUE), Null, Missing, Missing)),
               ListOk(List(<<>>)), SearchOk(SearchBody(Null))) }

-----------------------------------------------------------------------------
(* The URLs of the model                                                   *)

Url(host, segs) == [host |-> host, segs |-> segs, slash |-> FALSE, parses |-> TRUE]
\* a string that urlparse rejects, such as "http://[x"
Unparsable == [host |-> "", segs |-> <<>>, slash |-> FALSE, parses |-> FALSE]
UrlM1 == Url("huggingface.co", <<"org", "m1">>)
UrlM2 == Url("huggingface.co", <<"org", "m2">>)
UrlD1 == Url("huggingface.co", <<"datasets", "d1">>)
UrlK1 == Url("github.com", <<"own", "repo">>)
UrlX == Url("example.com", <<"x">>)
Urls == {UrlM1, UrlM2, UrlD1, UrlK1, UrlX, Unparsable}

ModelIds == {ModelHandler_extract_model_id(u) : u \in {v \in Urls : classify_url(v) = "MODEL"}}
DatasetIds == {DatasetHandler_extract_dataset_id(u) : u \in {v \in Urls : classify_url(v) = "DATASET"}}
RepoIds == {CodeHandler_extract_repo_path(u) : u \in {v \in Urls : classify_url(v) = "CODE"}}

\* the identifiers a URL list asks the services about
IdsAsked(us, t, Id(_)) == {Id(us[i]) : i \in {j \in 1..Len(us) : classify_url(us[j]) = t}}

MaxBatch == 3
MaxCalls == 2
MaxWorkers == 2
Delays == {0, 7}

\* the URL lists: no URL twice
Batches ==
    UNION {{b \in [1..n -> Urls] : \A i, j \in 1..n : i # j => b[i] # b[j]} : n \in 0..MaxBatch}

\* the services' answers for a URL list: an identifier the list does not ask about
\* is down (its answer is never read)
Upstreams(us) ==
    {up \in [models : [ModelIds -> FlowModelResps],
             datasets : [DatasetIds -> FlowDatasetResps],
             repos : [RepoIds -> FlowCodeResps]] :
        /\ \A id \in ModelIds \ IdsAsked(us, "MODEL", ModelHandler_extract_model_id) :
              up.models[id] = ModelDown("timeout")
        /\ \A id \in DatasetIds \ IdsAsked(us, "DATASET", DatasetHandler_extract_dataset_id) :
              up.datasets[id] = DatasetDown("timeout")
        /\ \A id \in RepoIds \ IdsAsked(us, "CODE", CodeHandler_extract_repo_path) :
              up.repos[id] = CodeDown("timeout")}

NoResources == [MODEL |-> <<>>, DATASET |-> <<>>, CODE |-> <<>>]
NoUpstream ==
    [models |-> [id \in ModelIds |-> ModelDown("timeout")],
     datasets |-> [id \in DatasetIds |-> DatasetDown("timeout")],
     repos |-> [id \in RepoIds |-> CodeDown("timeout")]]
NoUnit == [fn |-> "none"]
\* nothing registered, no reset yet
NoRegistry == [items |-> {}, reset |-> "never"]

-----------------------------------------------------------------------------
(* evaluate_urls, one call after the other on the same URL list            *)

Init ==
    /\ urls \in Batches
    /\ upstream \in Upstreams(urls)
    /\ delay \in Delays
    /\ pc = "idle"
    /\ calls = 0
    /\ resources = NoResources
    /\ todo = <<>>
    /\ results = <<>>
    /\ returned = <<>>
    /\ max_workers = 1
    /\ task = <<>>
    /\ future = <<>>
    /\ metric_results = <<>>
    /\ fan_net = <<>>
    /\ unit = NoUnit
    /\ file = <<>>
    /\ line_num = 0
    /\ table = {}
    /\ registry = NoRegistry

\* evaluate_urls up to its loop: group the URLs, build the handles
\* when group_urls_by_type raises, the exception leaves evaluate_urls
EvaluateUrls ==
    /\ pc \in {"idle", "raised"}
    /\ calls < MaxCalls
    /\ IF group_raises(urls)
       THEN /\ pc' = "raised"
            /\ UNCHANGED <<resources, todo>>
       ELSE /\ LET grouped_urls == group_urls_by_type(urls)
               IN  /\ resources' = create_resource_handlers(grouped_urls)
                   /\ todo' = grouped_urls["MODEL"]
            /\ pc' = "loop"
    /\ results' = <<>>
    /\ calls' = calls + 1
    /\ UNCHANGED <<upstream, delay, urls, returned, max_workers, task, future,
                   metric_results, fan_net, unit>>
    /\ UNCHANGED <<table, registry>>
    /\ UNCHANGED <<file, line_num>>

\* the result put in front of the list
PrependResult(r) ==
    /\ results' = <<r.result>> \o results
    /\ resources' = r.res

\* results.append(result); the handles stay as the evaluation left them
AppendResult(r) ==
    /\ results' = Append(results, r.result)
    /\ resources' = r.res

\* one turn of the loop over the MODEL URLs
\* ThreadPoolExecutor(max_workers) raises ValueError for a width below 1, inside
\* the try of _evaluate_single_model: the result is None and is not appended
EvaluateSingleModel ==
    /\ pc = "loop"
    /\ todo # <<>>
    /\ IF max_workers < 1
       THEN UNCHANGED <<results, resources>>
       ELSE AppendResult(evaluate_single_model(Head(todo), resources, upstream, delay))
    /\ todo' = Tail(todo)
    /\ UNCHANGED <<upstream, delay, urls, pc, calls, returned, max_workers, task, future,
                   metric_results, fan_net, unit>>
    /\ UNCHANGED <<table, registry>>
    /\ UNCHANGED <<file, line_num>>

\* return results
ReturnResults ==
    /\ pc = "loop"
    /\ todo = <<>>
    /\ returned' = Append(returned, results)
    /\ pc' = "idle"
    /\ UNCHANGED <<upstream, delay, urls, calls, resources, todo, results, max_workers,
                   task, future, metric_results, fan_net, unit>>
    /\ UNCHANGED <<table, registry>>
    /\ UNCHANGED <<file, line_num>>

Next == EvaluateUrls \/ EvaluateSingleModel \/ ReturnResults

Spec == Init /\ [][Next]_vars

\* the same calls on an evaluator built with any width, 0 included
InitPool ==
    /\ urls \in Batches
    /\ upstream \in Upstreams(urls)
    /\ delay \in Delays
    /\ pc = "idle"
    /\ calls = 0
    /\ resources = NoResources
    /\ todo = <<>>
    /\ results = <<>>
    /\ returned = <<>>
    /\ max_workers \in {0, 1}
    /\ task = <<>>
    /\ future = <<>>
    /\ metric_results = <<>>
    /\ fan_net = <<>>
    /\ unit = NoUnit
    /\ file = <<>>
    /\ line_num = 0
    /\ table = {}
    /\ registry = NoRegistry

SpecPool == InitPool /\ [][Next]_vars

-----------------------------------------------------------------------------
(* evaluate_from_file.  A line of the file is the sequence of the pieces   *)
(* between its commas; a piece is a URL or nothing, with or without white  *)
(* space around it.                                                        *)

Token(u, padded) == [text |-> <<u>>, padded |-> padded]
NoToken(padded) == [text |-> <<>>, padded |-> padded]

\* url.strip(): the white space goes, the text stays
Strip(tok) == tok.text

\* line.strip() is empty: the line holds white space only
LineBlank(line) == Len(line) = 1 /\ Strip(line[1]) = <<>>

\* [url.strip() for url in line.split(',') if url.strip()]
RECURSIVE LineUrls(_)
LineUrls(line) ==
    IF line = <<>> THEN <<>> ELSE Strip(line[1]) \o LineUrls(Tail(line))

\* the loop of evaluate_urls over the MODEL URLs, on the handles of the call
RECURSIVE ModelsLoop(_, _, _, _, _, _)
ModelsLoop(model_urls, res, up, d, w, acc) ==
    IF model_urls = <<>> THEN acc
    ELSE IF w < 1 THEN ModelsLoop(Tail(model_urls), res, up, d, w, acc)
    ELSE Then(evaluate_single_model(model_urls[1], res, up, d),
              LAMBDA ev : ModelsLoop(Tail(model_urls), ev.res, up, d, w, Append(acc, ev.result)))

\* evaluate_urls as one call: fresh handles, one result per MODEL URL
evaluate_urls(us, up, d, w) ==
    IF group_raises(us)
    THEN [raised |-> TRUE, results |-> <<>>]
    ELSE [raised |-> FALSE,
          results |-> ModelsLoop(group_urls_by_type(us)["MODEL"],
                                 create_resource_handlers(group_urls_by_type(us)),
                                 up, d, w, <<>>)]

LineM1 == <<Token(UrlM1, FALSE)>>
LineM2 == <<Token(UrlM2, TRUE)>>
LineD1 == <<Token(UrlD1, FALSE)>>
LineM1D1 == <<Token(UrlM1, TRUE), NoToken(TRUE), Token(UrlD1, TRUE)>>
LineM2K1 == <<Token(UrlM2, FALSE), Token(UrlK1, FALSE), NoToken(FALSE)>>
LineSpaces == <<NoToken(TRUE)>>
LineCommas == <<NoToken(FALSE), NoToken(TRUE)>>
LineBad == <<Token(Unparsable, FALSE)>>
Lines == {LineM1, LineM2, LineD1, LineM1D1, LineM2K1, LineSpaces, LineCommas, LineBad}

MaxLines == 2
Files == UNION {[1..n -> Lines] : n \in 0..MaxLines}

\* every URL of a file, line after line
RECURSIVE FileUrls(_)
FileUrls(f) == IF f = <<>> THEN <<>> ELSE LineUrls(f[1]) \o FileUrls(Tail(f))

\* pc "no_file": there is no file at the path
InitFile ==
    /\ file \in Files
    /\ upstream \in Upstreams(FileUrls(file))
    /\ delay \in Delays
    /\ pc \in IF file = <<>> THEN {"file", "no_file"} ELSE {"file"}
    /\ line_num = 0
    /\ table = {}
    /\ registry = NoRegistry
    /\ urls = <<>>
    /\ calls = 0
    /\ resources = NoResources
    /\ todo = <<>>
    /\ results = <<>>
    /\ returned = <<>>
    /\ max_workers = 1
    /\ task = <<>>
    /\ future = <<>>
    /\ metric_results = <<>>
    /\ fan_net = <<>>
    /\ unit = NoUnit

\* an exception that ends the loop with what the lines before gave
ExtendOrReturn(r) ==
    IF r.raised
    THEN /\ results' = results
         /\ returned' = Append(returned, results)
         /\ pc' = "file_done"
    ELSE /\ results' = results \o r.results
         /\ UNCHANGED <<returned, pc>>

\* results.extend(self.evaluate_urls(line_urls)); an exception leaves the loop
\* for `except Exception: return []`
ExtendResults(r) ==
    IF r.raised
    THEN /\ results' = <<>>
         /\ returned' = Append(returned, <<>>)
         /\ pc' = "file_done"
    ELSE /\ results' = results \o r.results
         /\ UNCHANGED <<returned, pc>>

\* one turn of the loop over the lines of the file
ReadLine ==
    /\ pc = "file"
    /\ line_num < Len(file)
    /\ IF LineBlank(file[line_num + 1]) \/ LineUrls(file[line_num + 1]) = <<>>
       THEN UNCHANGED <<results, returned, pc>>
       ELSE ExtendResults(evaluate_urls(LineUrls(file[line_num + 1]), upstream, delay, max_workers))
    /\ line_num' = line_num + 1
    /\ UNCHANGED <<upstream, delay, urls, calls, resources, todo, max_workers, task, future,
                   metric_results, fan_net, unit, file>>
    /\ UNCHANGED <<table, registry>>

\* return results
EndOfFile ==
    /\ pc = "file"
    /\ line_num = Len(file)
    /\ returned' = Append(returned, results)
    /\ pc' = "file_done"
    /\ UNCHANGED <<upstream, delay, urls, calls, resources, todo, results, max_workers, task,
                   future, metric_results, fan_net, unit, file, line_num>>
    /\ UNCHANGED <<table, registry>>

\* open() raises FileNotFoundError: return []
OpenFails ==
    /\ pc = "no_file"
    /\ returned' = Append(returned, <<>>)
    /\ pc' = "file_missing"
    /\ UNCHANGED <<upstream, delay, urls, calls, resources, todo, results, max_workers, task,
                   future, metric_results, fan_net, unit, file, line_num>>
    /\ UNCHANGED <<table, registry>>

NextFile == ReadLine \/ EndOfFile \/ OpenFails

SpecFile == InitFile /\ [][NextFile]_vars

-----------------------------------------------------------------------------
(* _calculate_metrics_parallel with its threads, for one model.  The pool  *)
(* takes the submitted tasks in submission order, at most max_workers at a *)
(* time; a task runs metric.calculate on the shared handles; the           *)
(* collecting loop takes the finished tasks in any order.                  *)

NoFuture == [failed |-> FALSE, raised |-> FALSE, ret |-> Result(NoScore, 0)]

\* a model with its dataset and its code, and a model with its dataset only
FanBatches == {<<UrlM1, UrlD1, UrlK1>>, <<UrlM1, UrlD1>>}

InitFan ==
    /\ urls \in FanBatches
    /\ upstream \in Upstreams(urls)
    /\ delay \in Delays
    /\ max_workers \in 1..MaxWorkers
    /\ pc = "fan"
    /\ calls = 1
    /\ resources = create_resource_handlers(group_urls_by_type(urls))
    /\ todo = group_urls_by_type(urls)["MODEL"]
    /\ results = <<>>
    /\ returned = <<>>
    /\ task = [m \in MetricNames |-> "queued"]
    /\ future = [m \in MetricNames |-> NoFuture]
    /\ metric_results = <<>>
    /\ fan_net = <<>>
    /\ unit = NoUnit
    /\ file = <<>>
    /\ line_num = 0
    /\ table = {}
    /\ registry = NoRegistry

Position(m) == CHOOSE i \in 1..Len(METRIC_CLASSES) : METRIC_CLASSES[i] = m

\* a worker takes the oldest submitted task
Start(m) ==
    /\ pc = "fan"
    /\ task[m] = "queued"
    /\ Cardinality({n \in MetricNames : task[n] = "running"}) < max_workers
    /\ \A n \in MetricNames : Position(n) < Position(m) => task[n] # "queued"
    /\ task' = [task EXCEPT ![m] = "running"]
    /\ UNCHANGED <<upstream, delay, urls, pc, calls, resources, todo, results, returned,
                   max_workers, future, metric_results, fan_net, unit>>
    /\ UNCHANGED <<table, registry>>
    /\ UNCHANGED <<file, line_num>>

\* the task ran: fut is what _safe_calculate_metric returned
Finished(m, fut) ==
    /\ future' = [future EXCEPT ![m] = [failed |-> fut.failed, raised |-> fut.raised,
                                        ret |-> fut.ret]]
    /\ resources' = WriteBack(m, resources, fut.res)

Finish(m) ==
    /\ pc = "fan"
    /\ task[m] = "running"
    /\ Finished(m, safe_calculate_metric(m, available_resources(m, resources), upstream, delay))
    /\ task' = [task EXCEPT ![m] = "done"]
    /\ UNCHANGED <<upstream, delay, urls, pc, calls, todo, results, returned,
                   max_workers, metric_results, fan_net, unit>>
    /\ UNCHANGED <<table, registry>>
    /\ UNCHANGED <<file, line_num>>

\* one turn of: for future in as_completed(future_to_metric)
Collect(m) ==
    /\ pc = "fan"
    /\ task[m] = "done"
    /\ metric_results' = IF future[m].failed
                         THEN Collected(metric_results, m, Result(Scalar(Zero), 0))
                         ELSE Collected(metric_results, m, future[m].ret)
    /\ task' = [task EXCEPT ![m] = "collected"]
    /\ UNCHANGED <<upstream, delay, urls, pc, calls, resources, todo, results, returned,
                   max_workers, future, fan_net, unit>>
    /\ UNCHANGED <<table, registry>>
    /\ UNCHANGED <<file, line_num>>

\* return metric_results, and _evaluate_single_model builds the record from it
Join ==
    /\ pc = "fan"
    /\ \A m \in MetricNames : task[m] = "collected"
    /\ fan_net' = BuildResult(Head(todo), metric_results)
    /\ pc' = "joined"
    /\ UNCHANGED <<upstream, delay, urls, calls, resources, todo, results, returned,
                   max_workers, task, future, metric_results, unit>>
    /\ UNCHANGED <<table, registry>>
    /\ UNCHANGED <<file, line_num>>

NextFan == (\E m \in MetricNames : Start(m) \/ Finish(m) \/ Collect(m)) \/ Join

SpecFan == InitFan /\ [][NextFan]_vars

-----------------------------------------------------------------------------
(* _calculate_net_score on its own: the result map is drawn, the function  *)
(* is applied to it.                                                        *)

Absent == [kind |-> "absent", v |-> Zero, d |-> <<>>]
NetScalars == {Absent, Scalar(Tenths(3)), Scalar(One)}
NetSizes == {Absent, Scalar(Zero), SizeFallback, SizeDict(90), SizeDict(6000)}

\* for every metric, no result or one of the scores above
NetChoices ==
    [license : NetScalars, size_score : NetSizes, ramp_up_time : NetScalars,
     bus_factor : NetScalars, performance_claims : NetScalars,
     dataset_and_code_score : NetScalars, dataset_quality : NetScalars,
     code_quality : NetScalars]

ResultsOf(choice) ==
    [m \in {k \in MetricNames : choice[k] # Absent} |-> Result(choice[m], 7)]

NetInputs == {ResultsOf(choice) : choice \in NetChoices}

InitNet ==
    /\ metric_results \in NetInputs
    /\ urls = <<>>
    /\ upstream = NoUpstream
    /\ delay = 0
    /\ pc = "unit"
    /\ calls = 0
    /\ resources = NoResources
    /\ todo = <<>>
    /\ results = <<>>
    /\ returned = <<>>
    /\ max_workers = 1
    /\ task = <<>>
    /\ future = <<>>
    /\ fan_net = <<>>
    /\ unit = NoUnit
    /\ file = <<>>
    /\ line_num = 0
    /\ table = {}
    /\ registry = NoRegistry

NetScored(net) == unit' = [fn |-> "net", net_score |-> net[1], latency |-> net[2]]

CalculateNetScore ==
    /\ pc = "unit"
    /\ NetScored(calculate_net_score(metric_results))
    /\ UNCHANGED <<upstream, delay, urls, pc, calls, resources, todo, results, returned,
                   max_workers, task, future, metric_results, fan_net>>
    /\ UNCHANGED <<table, registry>>
    /\ UNCHANGED <<file, line_num>>

NextNet == CalculateNetScore

SpecNet == InitNet /\ [][NextNet]_vars

-----------------------------------------------------------------------------
(* metric.calculate on its own: a resource mapping with at most one handle *)
(* per category and the services' answers are drawn; any metric is         *)
(* calculated on the mapping, one call after the other on the same handles *)

MetricBatch == <<UrlM1, UrlD1, UrlK1>>

MetricResources ==
    {[MODEL |-> ms, DATASET |-> ds, CODE |-> cs] :
        ms \in {<<>>, <<ModelHandler_init(UrlM1)>>},
        ds \in {<<>>, <<DatasetHandler_init(UrlD1)>>},
        cs \in {<<>>, <<CodeHandler_init(UrlK1)>>}}

InitMetric ==
    /\ urls = MetricBatch
    /\ upstream \in Upstreams(urls)
    /\ delay \in Delays
    /\ resources \in MetricResources
    /\ pc = "unit"
    /\ calls = 0
    /\ todo = <<>>
    /\ results = <<>>
    /\ returned = <<>>
    /\ max_workers = 1
    /\ task = <<>>
    /\ future = <<>>
    /\ metric_results = <<>>
    /\ fan_net = <<>>
    /\ unit = NoUnit
    /\ file = <<>>
    /\ line_num = 0
    /\ table = {}
    /\ registry = NoRegistry

Calculated(m, out) ==
    /\ unit' = [fn |-> "calculate", m |-> m, raised |-> out.raised, score |-> out.score,
                latency |-> out.latency]
    /\ resources' = out.res

Calculate(m) ==
    /\ pc = "unit"
    /\ Calculated(m, calculate(m, resources, upstream, delay))
    /\ UNCHANGED <<upstream, delay, urls, pc, calls, todo, results, returned,
                   max_workers, task, future, metric_results, fan_net>>
    /\ UNCHANGED <<table, registry>>
    /\ UNCHANGED <<file, line_num>>

NextMetric == \E m \in MetricNames : Calculate(m)

SpecMetric == InitMetric /\ [][NextMetric]_vars

-----------------------------------------------------------------------------
(* The handle methods on their own: one handle and the answers of its      *)
(* service are drawn; any of its methods is called, one call after the     *)
(* other on the same handle                                                *)

HandlerModelApis ==
    {HubFail(st) : st \in FailStatus} \cup {ApiOk(NonObject(HubFields))}
    \cup {ApiOk(HubBody(downloads, likes, Missing, Missing, Missing, Missing)) :
             downloads \in {Missing, Null, Num(150), Num(20000)},
             likes \in {Missing, Null, Num(50)}}

HandlerTrees ==
    {TreeFail(st) : st \in FailStatus}
    \cup {TreeOk(files) : files \in {<<>>, <<Num(40), Num(50)>>, <<Num(6000), Null>>,
                                     <<Missing, <<"nondict">>, Num(700)>>}}

HandlerReadmes ==
    {ReadmeFail(st) : st \in FailStatus}
    \cup {ReadmeOk(text) : text \in
            {NoText,
             Text("license", FALSE, "mit", TRUE, TRUE, TRUE, TRUE, TRUE, TRUE),
             Text("no_license", FALSE, "", TRUE, FALSE, TRUE, FALSE, FALSE, FALSE),
             Text("none", FALSE, "", TRUE, TRUE, FALSE, FALSE, TRUE, FALSE),
             Text("license", TRUE, "mit", FALSE, TRUE, TRUE, FALSE, FALSE, FALSE),
             Text("license", FALSE, "proprietary", TRUE, FALSE, FALSE, FALSE, FALSE, FALSE)}}

HandlerModelResps ==
    {ModelResp(api, tree, readme) :
        api \in HandlerModelApis, tree \in HandlerTrees, readme \in HandlerReadmes}

HandlerDatasetResps ==
    {DatasetDown(st) : st \in FailStatus} \cup {DatasetResp(ApiOk(NonObject(HubFields)))}
    \cup {DatasetResp(ApiOk(HubBody(downloads, Missing, tags, cardData, siblings, Missing))) :
             downloads \in {Missing, Null, Num(50), Num(20000)},
             tags \in {Missing, Null, List(<<Str("evaluation"), Str("nlp"), Str("qa")>>)},
             cardData \in {Missing, Null, Obj(TRUE)},
             siblings \in {Missing, Null, List(<<Str("a"), Str("b")>>)}}

HandlerRepoApis ==
    {RepoFail(st) : st \in FailStatus \cup {"unauthorized"}}
    \cup {ApiOk(NonObject(RepoFields))}
    \cup {ApiOk(RepoBody(has_readme, stars, updated_at, Bool(TRUE), Str("a repo"),
                         Missing, Missing)) :
             has_readme \in {Missing, Bool(TRUE)},
             stars \in {Missing, Null, Num(500)},
             updated_at \in {Missing, Null, Str("2024-06-01T00:00:00Z"),
                             Str("2022-06-01T00:00:00Z")}}

HandlerLists ==
    {ListFail(st) : st \in FailStatus}
    \cup {ListOk(List(<<>>)), ListOk(List(Persons(12))), ListOk(Null)}

HandlerSearches ==
    {SearchFail("timeout"), SearchOk(SearchBody(Num(3))), SearchOk(SearchBody(Null)),
     SearchOk(NonObject({"total_count"}))}

HandlerCodeResps ==
    {CodeResp(api, contributors, search) :
        api \in HandlerRepoApis, contributors \in HandlerLists, search \in HandlerSearches}

OneHandle ==
    {[NoResources EXCEPT !["MODEL"] = <<ModelHandler_init(UrlM1)>>],
     [NoResources EXCEPT !["DATASET"] = <<DatasetHandler_init(UrlD1)>>],
     [NoResources EXCEPT !["CODE"] = <<CodeHandler_init(UrlK1)>>]}

\* the one handle of a mapping of OneHandle
TheHandle(res) == (res["MODEL"] \o res["DATASET"] \o res["CODE"])[1]

\* the answers of the handle's service; the other services are down
HandlerUpstreams(h) ==
    CASE h.kind = "MODEL" ->
           {[NoUpstream EXCEPT !.models[h.id] = r] : r \in HandlerModelResps}
      [] h.kind = "DATASET" ->
           {[NoUpstream EXCEPT !.datasets[h.id] = r] : r \in HandlerDatasetResps}
      [] h.kind = "CODE" ->
           {[NoUpstream EXCEPT !.repos[h.id] = r] : r \in HandlerCodeResps}

Methods ==
    [MODEL |-> {"get_license_score", "get_documentation_score", "get_contributor_count",
                "get_size_mb", "has_performance_benchmarks"},
     DATASET |-> {"get_license_score", "get_documentation_score", "get_contributor_count",
                  "get_quality_score", "has_evaluation_dataset"},
     CODE |-> {"get_license_score", "get_documentation_score", "get_contributor_count",
               "get_code_quality_score", "has_evaluation_code"}]

AllMethods == Methods["MODEL"] \cup Methods["DATASET"] \cup Methods["CODE"]

\* h.method()
HandlerMethod(h, method, up) ==
    CASE method = "get_license_score" -> get_license_score(h, up)
      [] method = "get_documentation_score" -> get_documentation_score(h, up)
      [] method = "get_contributor_count" -> get_contributor_count(h, up)
      [] method = "get_size_mb" -> ModelHandler_get_size_mb(h, up)
      [] method = "has_performance_benchmarks" -> ModelHandler_has_performance_benchmarks(h, up)
      [] method = "get_quality_score" -> DatasetHandler_get_quality_score(h, up)
      [] method = "has_evaluation_dataset" -> DatasetHandler_has_evaluation_dataset(h, up)
      [] method = "get_code_quality_score" -> CodeHandler_get_code_quality_score(h, up)
      [] method = "has_evaluation_code" -> CodeHandler_has_evaluation_code(h, up)

InitHandler ==
    /\ resources \in OneHandle
    /\ upstream \in HandlerUpstreams(TheHandle(resources))
    /\ urls = <<>>
    /\ delay = 0
    /\ pc = "unit"
    /\ calls = 0
    /\ todo = <<>>
    /\ results = <<>>
    /\ returned = <<>>
    /\ max_workers = 1
    /\ task = <<>>
    /\ future = <<>>
    /\ metric_results = <<>>
    /\ fan_net = <<>>
    /\ unit = NoUnit
    /\ file = <<>>
    /\ line_num = 0
    /\ table = {}
    /\ registry = NoRegistry

Called(method, r) ==
    /\ unit' = [fn |-> "handler", kind |-> r.h.kind, method |-> method,
                raised |-> r.raised, val |-> r.val]
    /\ resources' = [resources EXCEPT ![r.h.kind] = <<r.h>>]

Call(method) ==
    /\ pc = "unit"
    /\ method \in Methods[TheHandle(resources).kind]
    /\ Called(method, HandlerMethod(TheHandle(resources), method, upstream))
    /\ UNCHANGED <<upstream, delay, urls, pc, calls, todo, results, returned,
                   max_workers, task, future, metric_results, fan_net>>
    /\ UNCHANGED <<table, registry>>
    /\ UNCHANGED <<file, line_num>>

NextHandler == \E method \in AllMethods : Call(method)

SpecHandler == InitHandler /\ [][NextHandler]_vars

-----------------------------------------------------------------------------
(* classify_url and group_urls_by_type on their own, on lists that may     *)
(* hold a URL more than once                                               *)

WithSlash(u) == [u EXCEPT !.slash = TRUE]

ClassifierUrls ==
    { UrlM1, UrlD1, UrlK1, UrlX, Unparsable,
      Url("huggingface.co", <<"bert-base-uncased">>),
      Url("huggingface.co", <<"datasets", "squad">>),
      Url("github.com", <<"org", "repo">>),
      Url("www.huggingface.co", <<"org", "m1">>),
      Url("HuggingFace.co", <<"Datasets", "squad">>),
      Url("gist.github.com", <<"x">>),
      Url("huggingface.co", <<"org", "datasets", "x">>),
      Url("huggingface.co", <<"datasets">>),
      WithSlash(Url("huggingface.co", <<"datasets">>)),
      Url("", <<"huggingface.co", "bert-base-uncased">>) }

MaxGroup == 3
ClassifierLists == UNION {[1..n -> ClassifierUrls] : n \in 0..MaxGroup}

InitClassifier ==
    /\ urls \in ClassifierLists
    /\ upstream = NoUpstream
    /\ resources = NoResources
    /\ delay = 0
    /\ pc = "unit"
    /\ calls = 0
    /\ todo = <<>>
    /\ results = <<>>
    /\ returned = <<>>
    /\ max_workers = 1
    /\ task = <<>>
    /\ future = <<>>
    /\ metric_results = <<>>
    /\ fan_net = <<>>
    /\ unit = NoUnit
    /\ file = <<>>
    /\ line_num = 0
    /\ table = {}
    /\ registry = NoRegistry

\* classify_url on one URL of the list
Classify(i) ==
    /\ pc = "unit"
    /\ unit' = [fn |-> "classify_url", url |-> urls[i],
                raised |-> classify_url(urls[i]) = ValueError, val |-> classify_url(urls[i])]
    /\ UNCHANGED <<upstream, delay, urls, pc, calls, resources, todo, results, returned,
                   max_workers, task, future, metric_results, fan_net, file, line_num>>
    /\ UNCHANGED <<table, registry>>

\* group_urls_by_type on the list
Group ==
    /\ pc = "unit"
    /\ unit' = [fn |-> "group_urls_by_type", url |-> Unparsable,
                raised |-> group_raises(urls),
                val |-> IF group_raises(urls) THEN ValueError ELSE group_urls_by_type(urls)]
    /\ UNCHANGED <<upstream, delay, urls, pc, calls, resources, todo, results, returned,
                   max_workers, task, future, metric_results, fan_net, file, line_num>>
    /\ UNCHANGED <<table, registry>>

NextClassifier == (\E i \in 1..Len(urls) : Classify(i)) \/ Group

SpecClassifier == InitClassifier /\ [][NextClassifier]_vars

-----------------------------------------------------------------------------
(* get_huggingface_api_data of one dataset handle, called by the threads   *)
(* of the pool: a thread reads the cache, asks the service on a miss and   *)
(* stores the answer, with no lock around the three steps.  The service    *)
(* may answer differently from one request to the next.                    *)

CacheKey == "hf_api_data"

CacheAnswers ==
    { DatasetDown("timeout"),
      DatasetResp(ApiOk(EmptyObject(HubFields))),
      DatasetResp(ApiOk(HubBody(Num(50), Missing, Missing, Missing, Missing, Missing))),
      DatasetResp(ApiOk(HubBody(Num(20000), Missing, Missing, Missing, Missing, Missing))) }

CacheUpstreams ==
    {[NoUpstream EXCEPT !.datasets[DatasetHandler_init(UrlD1).id] = r] : r \in CacheAnswers}

CacheHandle == resources["DATASET"][1]

\* stored: the first value stored under the key; read: what the last read of
\* the key gave
NoRead == [fn |-> "cache", stored |-> None, read |-> None]

InitCache ==
    /\ urls = <<UrlD1>>
    /\ resources = create_resource_handlers(group_urls_by_type(<<UrlD1>>))
    /\ upstream \in CacheUpstreams
    /\ max_workers = MaxWorkers
    /\ task = [t \in 1..MaxWorkers |-> "idle"]
    /\ future = [t \in 1..MaxWorkers |-> None]
    /\ pc = "cache"
    /\ calls = 0
    /\ delay = 0
    /\ todo = <<>>
    /\ results = <<>>
    /\ returned = <<>>
    /\ metric_results = <<>>
    /\ fan_net = <<>>
    /\ unit = NoRead
    /\ file = <<>>
    /\ line_num = 0
    /\ table = {}
    /\ registry = NoRegistry

\* a thread enters get_huggingface_api_data
CallApi(t) ==
    /\ pc = "cache"
    /\ task[t] \in {"idle", "done"}
    /\ calls < MaxCalls
    /\ task' = [task EXCEPT ![t] = "check"]
    /\ calls' = calls + 1
    /\ UNCHANGED <<upstream, delay, urls, pc, resources, todo, results, returned, max_workers,
                   future, metric_results, fan_net, unit, file, line_num>>
    /\ UNCHANGED <<table, registry>>

\* cached = self._cache_get('hf_api_data'); if cached: return cached
CacheCheck(t) ==
    /\ pc = "cache"
    /\ task[t] = "check"
    /\ IF cache_get(CacheHandle, CacheKey) = None
       THEN /\ task' = [task EXCEPT ![t] = "request"]
            /\ UNCHANGED unit
       ELSE /\ task' = [task EXCEPT ![t] =
                           IF BodyTruthy(cache_get(CacheHandle, CacheKey)[2])
                           THEN "done" ELSE "request"]
            /\ unit' = [unit EXCEPT !.read = cache_get(CacheHandle, CacheKey)]
    /\ UNCHANGED <<upstream, delay, urls, pc, calls, resources, todo, results, returned,
                   max_workers, future, metric_results, fan_net, file, line_num>>
    /\ UNCHANGED <<table, registry>>

\* response = requests.get(api_url, timeout=10); data = response.json()
Request(t) ==
    /\ pc = "cache"
    /\ task[t] = "request"
    /\ IF upstream.datasets[CacheHandle.id].api.status = "ok"
       THEN /\ future' = [future EXCEPT ![t] = <<"body", upstream.datasets[CacheHandle.id].api.body>>]
            /\ task' = [task EXCEPT ![t] = "store"]
       ELSE /\ task' = [task EXCEPT ![t] = "done"]
            /\ UNCHANGED future
    /\ UNCHANGED <<upstream, delay, urls, pc, calls, resources, todo, results, returned,
                   max_workers, metric_results, fan_net, unit, file, line_num>>
    /\ UNCHANGED <<table, registry>>

\* self._cache_set('hf_api_data', data); return data
CacheStore(t) ==
    /\ pc = "cache"
    /\ task[t] = "store"
    /\ resources' = [resources EXCEPT !["DATASET"][1] = cache_set(@, CacheKey, future[t])]
    /\ unit' = [unit EXCEPT !.stored = IF @ = None THEN future[t] ELSE @]
    /\ task' = [task EXCEPT ![t] = "done"]
    /\ UNCHANGED <<upstream, delay, urls, pc, calls, todo, results, returned, max_workers,
                   future, metric_results, fan_net, file, line_num>>
    /\ UNCHANGED <<table, registry>>

\* the service starts to answer differently
AnswerChanges ==
    /\ pc = "cache"
    /\ upstream' \in CacheUpstreams \ {upstream}
    /\ UNCHANGED <<delay, urls, pc, calls, resources, todo, results, returned, max_workers,
                   task, future, metric_results, fan_net, unit, file, line_num>>
    /\ UNCHANGED <<table, registry>>

NextCache ==
    \/ \E t \in 1..MaxWorkers : CallApi(t)
    \/ \E t \in 1..MaxWorkers : CacheCheck(t)
    \/ \E t \in 1..MaxWorkers : Request(t)
    \/ \E t \in 1..MaxWorkers : CacheStore(t)
    \/ AnswerChanges

SpecCache == InitCache /\ [][NextCache]_vars

-----------------------------------------------------------------------------
(* _create_resource_handlers on its own, on any mapping of URL lists, the  *)
(* lists that hold a URL no constructor accepts included                   *)

MaxHandlers == 2

ListsOver(S) == UNION {[1..n -> S] : n \in 0..MaxHandlers}

GroupedInputs ==
    [MODEL : ListsOver({UrlM1, UrlM2, Unparsable}),
     DATASET : ListsOver({UrlD1, Unparsable}),
     CODE : ListsOver({UrlK1, Unparsable}),
     UNKNOWN : {<<>>, <<UrlX>>}]

InitCreate ==
    /\ unit \in {[fn |-> "grouped_urls", grouped_urls |-> g, val |-> NoResources] : g \in GroupedInputs}
    /\ urls = <<>>
    /\ upstream = NoUpstream
    /\ resources = NoResources
    /\ delay = 0
    /\ pc = "unit"
    /\ calls = 0
    /\ todo = <<>>
    /\ results = <<>>
    /\ returned = <<>>
    /\ max_workers = 1
    /\ task = <<>>
    /\ future = <<>>
    /\ metric_results = <<>>
    /\ fan_net = <<>>
    /\ file = <<>>
    /\ line_num = 0
    /\ table = {}
    /\ registry = NoRegistry

CreateResourceHandlers ==
    /\ pc = "unit"
    /\ unit.fn = "grouped_urls"
    /\ unit' = [fn |-> "create_resource_handlers", grouped_urls |-> unit.grouped_urls,
                val |-> create_resource_handlers(unit.grouped_urls)]
    /\ resources' = create_resource_handlers(unit.grouped_urls)
    /\ UNCHANGED <<upstream, delay, urls, pc, calls, todo, results, returned, max_workers,
                   task, future, metric_results, fan_net, file, line_num>>
    /\ UNCHANGED <<table, registry>>

NextCreate == CreateResourceHandlers

SpecCreate == InitCreate /\ [][NextCreate]_vars

-----------------------------------------------------------------------------
(* ModelHandler.get_contributor_count on its own, for download and like    *)
(* counts at and around the thresholds                                     *)

AroundThresholds(ts) == {0} \cup UNION {{t - 1, t, t + 1} : t \in ts}

DownloadCounts == AroundThresholds({100, 1000, 10000})
LikeCounts == AroundThresholds({5, 20, 100})

ContributorApis ==
    {ApiOk(HubBody(Num(downloads), Num(likes), Missing, Missing, Missing, Missing)) :
        downloads \in DownloadCounts, likes \in LikeCounts}
    \cup {ApiOk(HubBody(Missing, Num(likes), Missing, Missing, Missing, Missing)) :
            likes \in LikeCounts}
    \cup {ApiOk(HubBody(Num(downloads), Missing, Missing, Missing, Missing, Missing)) :
            downloads \in DownloadCounts}

ContributorUpstreams ==
    {[NoUpstream EXCEPT !.models[ModelHandler_init(UrlM1).id] =
          ModelResp(api, TreeFail("timeout"), ReadmeFail("timeout"))] : api \in ContributorApis}

InitContributors ==
    /\ resources = [NoResources EXCEPT !["MODEL"] = <<ModelHandler_init(UrlM1)>>]
    /\ upstream \in ContributorUpstreams
    /\ urls = <<>>
    /\ delay = 0
    /\ pc = "unit"
    /\ calls = 0
    /\ todo = <<>>
    /\ results = <<>>
    /\ returned = <<>>
    /\ max_workers = 1
    /\ task = <<>>
    /\ future = <<>>
    /\ metric_results = <<>>
    /\ fan_net = <<>>
    /\ unit = NoUnit
    /\ file = <<>>
    /\ line_num = 0
    /\ table = {}
    /\ registry = NoRegistry

GetContributorCount ==
    /\ pc = "unit"
    /\ Called("get_contributor_count",
              ModelHandler_get_contributor_count(resources["MODEL"][1], upstream))
    /\ UNCHANGED <<upstream, delay, urls, pc, calls, todo, results, returned,
                   max_workers, task, future, metric_results, fan_net, file, line_num>>
    /\ UNCHANGED <<table, registry>>

NextContributors == GetContributorCount

SpecContributors == InitContributors /\ [][NextContributors]_vars

-----------------------------------------------------------------------------
(* CodeHandler.get_code_quality_score on its own, for repositories updated *)
(* in different years and evaluated in different years                     *)

Timestamps ==
    {"2022-06-01T00:00:00Z", "2023-06-01T00:00:00Z", "2024-06-01T00:00:00Z",
     "2025-06-01T00:00:00Z", "2026-06-01T00:00:00Z"}

\* the calendar year of the day of the evaluation
EvaluationYears == {2024, 2025, 2026}

QualityApis ==
    {ApiOk(RepoBody(has_readme, stars, updated_at, has_issues, Missing, Missing, Missing)) :
        has_readme \in {Missing, Bool(TRUE)},
        stars \in {Missing, Num(0), Num(1), Num(10), Num(11), Num(100), Num(101)},
        updated_at \in {Missing, Str("")} \cup {Str(t) : t \in Timestamps},
        has_issues \in {Bool(FALSE), Bool(TRUE)}}

QualityUpstreams ==
    {[NoUpstream EXCEPT !.repos[CodeHandler_init(UrlK1).id] =
          CodeResp(api, ListFail("timeout"), SearchFail("timeout"))] : api \in QualityApis}

InitQuality ==
    /\ resources = [NoResources EXCEPT !["CODE"] = <<CodeHandler_init(UrlK1)>>]
    /\ upstream \in QualityUpstreams
    /\ unit \in {[fn |-> "today", year |-> y, raised |-> FALSE, val |-> Zero] : y \in EvaluationYears}
    /\ urls = <<>>
    /\ delay = 0
    /\ pc = "unit"
    /\ calls = 0
    /\ todo = <<>>
    /\ results = <<>>
    /\ returned = <<>>
    /\ max_workers = 1
    /\ task = <<>>
    /\ future = <<>>
    /\ metric_results = <<>>
    /\ fan_net = <<>>
    /\ file = <<>>
    /\ line_num = 0
    /\ table = {}
    /\ registry = NoRegistry

QualityScored(r) ==
    /\ unit' = [fn |-> "get_code_quality_score", year |-> unit.year,
                raised |-> r.raised, val |-> r.val]
    /\ resources' = [resources EXCEPT !["CODE"] = <<r.h>>]

GetCodeQualityScore ==
    /\ pc = "unit"
    /\ QualityScored(CodeHandler_get_code_quality_score(resources["CODE"][1], upstream))
    /\ UNCHANGED <<upstream, delay, urls, pc, calls, todo, results, returned,
                   max_workers, task, future, metric_results, fan_net, file, line_num>>
    /\ UNCHANGED <<table, registry>>

NextQuality == GetCodeQualityScore

SpecQuality == InitQuality /\ [][NextQuality]_vars

-----------------------------------------------------------------------------
(* lambdas/*/app.py: the registry over its DynamoDB table.  A string is    *)
(* the sequence of its characters, so that an f-string is a concatenation  *)
(* and begins_with a prefix test.  The table is the set of its items, no   *)
(* two with the same (pk, sk).  A Scan or a Query call returns one page,   *)
(* the items that fit in 1 MB; an item is at most 400 KB, so a page of     *)
(* largest items holds PageCap of them.  The handlers call Scan and Query  *)
(* once and never read LastEvaluatedKey.                                    *)

\* f"{artifact_type}#{artifact_id}"
build_pk(artifact_type, artifact_id) == artifact_type \o <<"#">> \o artifact_id

\* f"v#{version}"
build_sk(version) == <<"v", "#">> \o version

\* Key("pk").begins_with(prefix)
begins_with(s, prefix) == Len(s) >= Len(prefix) /\ SubSeq(s, 1, Len(prefix)) = prefix

\* the number of largest items in one page of a Scan or a Query
PageCap == 2

\* the number of register requests followed
MaxPuts == 3

\* the code point of a character
Ord(c) ==
    CASE c = "#" -> 35 [] c = "1" -> 49 [] c = "2" -> 50
      [] c = "a" -> 97 [] c = "b" -> 98 [] c = "c" -> 99 [] c = "v" -> 118

\* the order of the sort keys: strings by their code points
RECURSIVE StrLess(_, _)
StrLess(s, t) ==
    IF t = <<>> THEN FALSE
    ELSE IF s = <<>> THEN TRUE
    ELSE IF s[1] # t[1] THEN Ord(s[1]) < Ord(t[1])
    ELSE StrLess(Tail(s), Tail(t))

\* what the table gives back for a value it was given: a number comes back
\* as a Decimal
Decimal(n) == <<"decimal", n>>

Stored(v) == IF v[1] = "num" THEN Decimal(v[2]) ELSE v

StoredMetadata(metadata) == [k \in DOMAIN metadata |-> Stored(metadata[k])]

\* json.dumps raises TypeError on a Decimal
DumpsRaises(items) ==
    \E item \in items : \E k \in DOMAIN item.metadata : item.metadata[k][1] = "decimal"

\* table.put_item: the item replaces the one with its (pk, sk), if any
put_item(tbl, item) ==
    {i \in tbl : ~(i.pk = item.pk /\ i.sk = item.sk)}
        \cup {[item EXCEPT !.metadata = StoredMetadata(item.metadata)]}

\* the pages a Scan may return: the order of a Scan is the table's own
ScanPages(tbl) ==
    IF Cardinality(tbl) <= PageCap THEN {tbl}
    ELSE {page \in SUBSET tbl : Cardinality(page) = PageCap}

\* the page a Query returns: the first items of the partition by sort key
QueryPage(tbl, pk) ==
    LET part == {i \in tbl : i.pk = pk}
    IN  IF Cardinality(part) <= PageCap THEN part
        ELSE CHOOSE page \in SUBSET part :
                /\ Cardinality(page) = PageCap
                /\ \A i \in page, j \in part \ page : StrLess(i.sk, j.sk)

\* a response: the status code and the items of the body
Response(fn, status, items, artifact_type, artifact_id) ==
    [fn |-> fn, status |-> status, items |-> items,
     artifact_type |-> artifact_type, artifact_id |-> artifact_id]

\* register_artifact: the response status and the table after it; now is
\* the time written to created_at
register_artifact(body, tbl, now) ==
    IF body.artifact_type = <<>> \/ body.artifact_id = <<>> \/ body.version = <<>>
    THEN [status |-> 400, table |-> tbl]
    ELSE [status |-> 200,
          table |-> put_item(tbl, [pk |-> build_pk(body.artifact_type, body.artifact_id),
                                   sk |-> build_sk(body.version),
                                   artifact_type |-> body.artifact_type,
                                   artifact_id |-> body.artifact_id,
                                   version |-> body.version,
                                   metadata |-> body.metadata,
                                   created_at |-> now])]

\* get_artifact: the response status and items
get_artifact(artifact_type, artifact_id, tbl) ==
    IF artifact_type = None \/ artifact_id = None THEN [status |-> 400, items |-> {}]
    ELSE LET items == QueryPage(tbl, build_pk(artifact_type, artifact_id))
         IN  IF items = {} THEN [status |-> 404, items |-> {}]
             ELSE IF DumpsRaises(items) THEN [status |-> 500, items |-> {}]
             ELSE [status |-> 200, items |-> items]

\* list_artifacts (a path parameter that the route does not have is None): with
\* no id the table is scanned and the filter applied to the page scanned; with
\* an id the partition is queried
list_artifacts(artifact_type, artifact_id, tbl, page) ==
    IF artifact_type = <<>> \/ artifact_type = None THEN [status |-> 400, items |-> {}]
    ELSE IF artifact_id = None
    THEN LET items == {i \in page : begins_with(i.pk, artifact_type \o <<"#">>)}
         IN  IF DumpsRaises(items) THEN [status |-> 500, items |-> {}]
             ELSE [status |-> 200, items |-> items]
    ELSE LET items == QueryPage(tbl, build_pk(artifact_type, artifact_id))
         IN  IF items = {} THEN [status |-> 404, items |-> {}]
             ELSE IF DumpsRaises(items) THEN [status |-> 500, items |-> {}]
             ELSE [status |-> 200, items |-> items]

\* reset_registry: the items of the page scanned are deleted
reset_registry(tbl, page) ==
    {i \in tbl : ~(\E d \in page : d.pk = i.pk /\ d.sk = i.sk)}

\* the requests
ArtifactTypes == {<<"a">>, <<"a", "#", "b">>}
\* the (type, id) pairs asked for: two of them differ and build the same key
ArtifactPairs ==
    {<<<<"a">>, <<"c">>>>, <<<<"a">>, <<"b", "#", "c">>>>, <<<<"a", "#", "b">>, <<"c">>>>}
Versions == {<<"1">>, <<"2">>}
Metadatas ==
    {[note |-> Str("x"), size |-> Missing],
     [note |-> Str("y"), size |-> Missing],
     [note |-> Str("x"), size |-> Num(5)]}

RegisterBody(artifact_type, artifact_id, version, metadata) ==
    [artifact_type |-> artifact_type, artifact_id |-> artifact_id,
     version |-> version, metadata |-> metadata]

\* the bodies with every field, and one body for each field left out
RegisterBodies ==
    {RegisterBody(p[1], p[2], v, md) : p \in ArtifactPairs, v \in Versions, md \in Metadatas}
        \cup {RegisterBody(<<>>, <<"c">>, <<"1">>, [note |-> Str("x"), size |-> Missing]),
              RegisterBody(<<"a">>, <<>>, <<"1">>, [note |-> Str("x"), size |-> Missing]),
              RegisterBody(<<"a">>, <<"c">>, <<>>, [note |-> Str("x"), size |-> Missing])}

\* what was registered: the latest metadata of each (type, id, version)
Registered(reg, body) ==
    [items |-> {r \in reg.items : ~(/\ r.artifact_type = body.artifact_type
                                    /\ r.artifact_id = body.artifact_id
                                    /\ r.version = body.version)} \cup {body},
     reset |-> IF reg.reset = "never" THEN "never" ELSE "before"]

InitRegistry ==
    /\ upstream = NoUpstream
    /\ delay = 0
    /\ urls = <<>>
    /\ pc = "registry"
    /\ calls = 0
    /\ resources = NoResources
    /\ todo = <<>>
    /\ results = <<>>
    /\ returned = <<>>
    /\ max_workers = 0
    /\ task = <<>>
    /\ future = <<>>
    /\ metric_results = <<>>
    /\ fan_net = <<>>
    /\ unit = NoUnit
    /\ file = <<>>
    /\ line_num = 0
    /\ table = {}
    /\ registry = NoRegistry

RegisterArtifact ==
    /\ pc = "registry"
    /\ calls < MaxPuts
    /\ \E body \in RegisterBodies :
        LET r == register_artifact(body, table, calls + 1)
        IN  /\ table' = r.table
            /\ registry' = IF r.status = 200 THEN Registered(registry, body) ELSE registry
            /\ unit' = Response("register_artifact", r.status, {},
                                body.artifact_type, body.artifact_id)
    /\ calls' = calls + 1
    /\ UNCHANGED <<upstream, delay, urls, pc, resources, todo, results, returned,
                   max_workers, task, future, metric_results, fan_net, file, line_num>>

GetArtifact ==
    /\ pc = "registry"
    /\ \E p \in ArtifactPairs \cup {<<None, <<"c">>>>} :
        LET r == get_artifact(p[1], p[2], table)
        IN  unit' = Response("get_artifact", r.status, r.items, p[1], p[2])
    /\ UNCHANGED <<upstream, delay, urls, pc, calls, resources, todo, results, returned,
                   max_workers, task, future, metric_results, fan_net, file, line_num>>
    /\ UNCHANGED <<table, registry>>

ListArtifacts ==
    /\ pc = "registry"
    /\ \E t \in ArtifactTypes \cup {None}, id \in {None, <<"c">>},
          page \in ScanPages(table) :
        LET r == list_artifacts(t, id, table, page)
        IN  unit' = Response("list_artifacts", r.status, r.items, t, id)
    /\ UNCHANGED <<upstream, delay, urls, pc, calls, resources, todo, results, returned,
                   max_workers, task, future, metric_results, fan_net, file, line_num>>
    /\ UNCHANGED <<table, registry>>

ResetRegistry ==
    /\ pc = "registry"
    /\ \E page \in ScanPages(table) :
        table' = reset_registry(table, page)
    /\ registry' = [items |-> {}, reset |-> "just"]
    /\ unit' = Response("reset_registry", 200, {}, None, None)
    /\ UNCHANGED <<upstream, delay, urls, pc, calls, resources, todo, results, returned,
                   max_workers, task, future, metric_results, fan_net, file, line_num>>

NextRegistry == RegisterArtifact \/ GetArtifact \/ ListArtifacts \/ ResetRegistry

SpecRegistry == InitRegistry /\ [][NextRegistry]_vars

-----------------------------------------------------------------------------
(* Properties                                                               *)

\* the weights in hundredths, as the weighted mean is stated
StatedWeight ==
    [license |-> 20, performance_claims |-> 15, ramp_up_time |-> 15, bus_factor |-> 10,
     size_score |-> 10, dataset_and_code_score |-> 10, dataset_quality |-> 10,
     code_quality |-> 10]

RECURSIVE ValueSum(_)
ValueSum(items) == IF items = <<>> THEN Zero ELSE RAdd(items[1][2], ValueSum(Tail(items)))

\* flat(score): the mean of a mapping's values, a scalar itself
Flat(score) ==
    IF score.kind = "dict" THEN RDiv(ValueSum(score.d), <<Len(score.d), 1>>) ELSE score.v

RECURSIVE WeightedSum(_, _)
WeightedSum(have, mr) ==
    IF have = {} THEN Zero
    ELSE LET m == CHOOSE k \in have : TRUE
         IN  RAdd(RMul(Rat(StatedWeight[m], 100), Flat(mr[m].score)),
                  WeightedSum(have \ {m}, mr))

RECURSIVE WeightSum(_)
WeightSum(have) ==
    IF have = {} THEN 0
    ELSE LET m == CHOOSE k \in have : TRUE IN StatedWeight[m] + WeightSum(have \ {m})

WeightedMean(have, mr) ==
    IF have = {} THEN Zero ELSE RDiv(WeightedSum(have, mr), Rat(WeightSum(have), 100))

\* C1: for every metric-result map given to the aggregation, the net score is the
\* sum of weight x flat(score) over the metrics of the weight table that have a
\* result, divided by the sum of the weights of those same metrics (0.0 when no
\* metric has a result)
C1_NetScoreIsWeightedMean ==
    unit.fn = "net" =>
        unit.net_score = WeightedMean(DOMAIN metric_results \cap DOMAIN StatedWeight,
                                      metric_results)

\* C1, its case: a map with a mapping-shaped size score and without a license
\* result, whose net score is strictly between 0 and 1
C1_Witness ==
    /\ unit.fn = "net"
    /\ "size_score" \in DOMAIN metric_results
    /\ metric_results["size_score"].score.kind = "dict"
    /\ "license" \notin DOMAIN metric_results
    /\ "bus_factor" \in DOMAIN metric_results
    /\ unit.net_score \notin {Zero, One}

ScoreInUnit(score) ==
    IF score.kind = "dict" THEN \A i \in 1..Len(score.d) : RInUnit(score.d[i][2])
    ELSE score.kind = "scalar" /\ RInUnit(score.v)

ResultInUnit(r) == RInUnit(r.net_score) /\ \A m \in MetricNames : ScoreInUnit(r.score[m])

\* C2: every result that evaluate_urls returns has its net score in [0,1] and
\* every per-metric score in [0,1] (a scalar, or each value of the size mapping),
\* whatever the services answered
C2_ScoresInUnitInterval ==
    \A i \in 1..Len(returned) : \A j \in 1..Len(returned[i]) : ResultInUnit(returned[i][j])

\* C2, its case: a returned result whose code quality reached the cap while the
\* model's service was down
C2_Witness ==
    \E i \in 1..Len(returned) : \E j \in 1..Len(returned[i]) :
        /\ returned[i][j].score["code_quality"] = Scalar(One)
        /\ returned[i][j].score["license"] = Scalar(Zero)
        /\ returned[i][j].score["size_score"].kind = "dict"
        /\ returned[i][j].net_score # Zero

\* the handles as evaluate_urls builds them for the URL list
Fresh == create_resource_handlers(group_urls_by_type(urls))

\* what the task of metric n returns when it runs alone on new handles
Alone(n) == safe_calculate_metric(n, available_resources(n, Fresh), upstream, delay).ret

\* C3: when the calculation of a metric raised during the fan-out, the metric is
\* recorded with score 0.0 and latency 0, every other metric is recorded with
\* what its own task gives, and the record of the model is built from all eight
C3_RaisingMetricIsolated ==
    pc = "joined" =>
        \A m \in MetricNames : future[m].raised =>
            /\ metric_results[m] = Result(Scalar(Zero), 0)
            /\ \A n \in MetricNames \ {m} :
                  ~future[n].raised => metric_results[n] = Alone(n)
            /\ DOMAIN metric_results = MetricNames
            /\ fan_net.score[m] = Scalar(Zero)
            /\ fan_net.latency[m] = 0
            /\ \A n \in MetricNames \ {m} : fan_net.score[n] = metric_results[n].score
            /\ RInUnit(fan_net.net_score)

\* C3, its case: the fan-out joined after the performance-claims calculation
\* raised, with the license of the model scored 1.0
C3_Witness ==
    /\ pc = "joined"
    /\ future["performance_claims"].raised
    /\ metric_results["license"].score = Scalar(One)
    /\ metric_results["bus_factor"].score # Scalar(Zero)

\* C4: whatever the order in which the tasks complete and are collected, and
\* whatever the width of the pool, every collected metric is filed under its own
\* name with what its task returned, and the record built after the join is the
\* one that running the tasks one after the other in registry order gives
C4_OrderAndWidthIndependent ==
    pc \in {"fan", "joined"} =>
        /\ DOMAIN metric_results = {m \in MetricNames : task[m] = "collected"}
        /\ \A m \in DOMAIN metric_results : metric_results[m] = future[m].ret
        /\ pc = "joined" =>
              fan_net = evaluate_single_model(Head(todo), Fresh, upstream, delay).result

\* C4, its case: two workers, and the result of a later metric of the registry
\* collected while an earlier one is still running
C4_Witness ==
    /\ pc = "fan"
    /\ max_workers = 2
    /\ task["size_score"] = "collected"
    /\ task["license"] = "running"
    /\ metric_results["size_score"].score # Scalar(Zero)

C6_CalculateNeverRaises == unit.fn = "calculate" => ~unit.raised

\* C7: no scoring call on a Model, Dataset or Code handle raises, whatever the
\* service answered
C7_HandlerCallNeverRaises == unit.fn = "handler" => ~unit.raised

\* C8: get_contributor_count returns an integer >= 1 for every variant and
\* every answer of the service
C8_ContributorCountAtLeastOne ==
    (unit.fn = "handler" /\ unit.method = "get_contributor_count" /\ ~unit.raised) =>
        unit.val >= 1

\* one URL of each category, and every call to the code host times out
OneOfEach ==
    /\ Len(urls) = 3
    /\ \A t \in {"MODEL", "DATASET", "CODE"} : Len(group_urls_by_type(urls)[t]) = 1

CodeHostTimesOut ==
    \A i \in 1..Len(urls) :
        classify_url(urls[i]) = "CODE" =>
            upstream.repos[CodeHandler_extract_repo_path(urls[i])] = CodeDown("timeout")

\* the contributor count the bus factor takes from the new handle of category t
ContributorsOf(t) == BusFactorMetric_get_contributor_count(Fresh[t][1], upstream).val

\* C9: for a batch of one model, one dataset and one code URL whose code host
\* times out on every call, evaluate_urls returns exactly one result; its code
\* quality is 0.0, its bus factor is the tier of the mean of the model's count,
\* the dataset's count and the code handle's default 1, and its net score is in
\* [0,1]
C9_CodeHostTimeout ==
    (OneOfEach /\ CodeHostTimesOut) =>
        \A i \in 1..Len(returned) :
            /\ Len(returned[i]) = 1
            /\ returned[i][1].score["code_quality"] = Scalar(Zero)
            /\ returned[i][1].score["bus_factor"] =
                  Scalar(BusFactorScore(ContributorsOf("MODEL") + ContributorsOf("DATASET") + 1, 3))
            /\ RInUnit(returned[i][1].net_score)

\* C9, its case: such a batch returned, the model counted 10 and the dataset 5
C9_Witness ==
    /\ OneOfEach
    /\ CodeHostTimesOut
    /\ Len(returned) >= 1
    /\ ContributorsOf("MODEL") = 10
    /\ ContributorsOf("DATASET") = 5
    /\ returned[1][1].score["bus_factor"] = Scalar(Tenths(8))

Projection(r) == [name |-> r.name, score |-> r.score, net_score |-> r.net_score]

SameResults(a, b) ==
    Len(a) = Len(b) /\ \A j \in 1..Len(a) : Projection(a[j]) = Projection(b[j])

AllHandles == resources["MODEL"] \o resources["DATASET"] \o resources["CODE"]

\* C10: every call of evaluate_urls on the same URL list against the same
\* answers returns the names, per-metric scores and net scores of the first
\* call; and every call starts its evaluations on handles whose caches are empty
C10_RepeatedCallsAgree ==
    /\ \A i \in 1..Len(returned) : SameResults(returned[i], returned[1])
    /\ (/\ pc = "loop"
        /\ Len(results) = 0
        /\ todo = group_urls_by_type(urls)["MODEL"]) =>
            \A k \in 1..Len(AllHandles) : AllHandles[k].cache = EmptyCache

\* C10, its case: the second call started, after a first call that returned a
\* result read from the services and left it in the caches of its handles
C10_Witness ==
    /\ calls = 2
    /\ pc = "loop"
    /\ Len(results) = 0
    /\ todo # <<>>
    /\ Len(returned) = 1
    /\ returned[1] # <<>>
    /\ returned[1][1].score["license"] = Scalar(One)

\* what a single-resource metric gives on the first new handle of its category
FirstLicense == ModelHandler_get_license_score(Fresh["MODEL"][1], upstream).val
FirstSize == SizeScoreMetric_calculate_hardware_compatibility(Fresh["MODEL"][1], upstream).val
FirstDatasetQuality ==
    IF Fresh["DATASET"] = <<>> THEN Zero
    ELSE DatasetQualityMetric_evaluate_dataset_quality(Fresh["DATASET"][1], upstream).val
FirstCodeQuality ==
    IF Fresh["CODE"] = <<>> THEN Zero
    ELSE CodeQualityMetric_evaluate_code_quality(Fresh["CODE"][1], upstream).val

\* C11: in every returned list, the license, size, dataset-quality and
\* code-quality scores of every result are those of the first handle built for
\* the category, and all results of the list carry the same per-metric scores
\* and the same net score
C11_FirstHandleScoresEveryModel ==
    \A i \in 1..Len(returned) : \A j \in 1..Len(returned[i]) :
        /\ returned[i][j].score["license"] = Scalar(FirstLicense)
        /\ returned[i][j].score["size_score"] = FirstSize
        /\ returned[i][j].score["dataset_quality"] = Scalar(FirstDatasetQuality)
        /\ returned[i][j].score["code_quality"] = Scalar(FirstCodeQuality)
        /\ returned[i][j].score = returned[i][1].score
        /\ returned[i][j].net_score = returned[i][1].net_score

\* C11, its case: two models in the batch, the second one licensed and the first
\* one not; both results carry the first one's license score and their own names
C11_Witness ==
    /\ Len(returned) >= 1
    /\ Len(returned[1]) = 2
    /\ returned[1][1].name # returned[1][2].name
    /\ ModelHandler_get_license_score(Fresh["MODEL"][2], upstream).val = One
    /\ returned[1][2].score["license"] = Scalar(Zero)
    /\ returned[1][2].score["size_score"] # SizeFallback

RECURSIVE NamesOf(_)
NamesOf(rs) == IF rs = <<>> THEN <<>> ELSE <<rs[1].name>> \o NamesOf(Tail(rs))

RECURSIVE ModelNames(_)
ModelNames(us) ==
    IF us = <<>> THEN <<>>
    ELSE (IF classify_url(us[1]) = "MODEL" THEN <<ModelName(us[1])>> ELSE <<>>)
         \o ModelNames(Tail(us))

RECURSIVE LineByLine(_, _, _, _)
LineByLine(f, up, d, w) ==
    IF f = <<>> THEN <<>>
    ELSE (IF LineUrls(f[1]) = <<>> THEN <<>> ELSE evaluate_urls(LineUrls(f[1]), up, d, w).results)
         \o LineByLine(Tail(f), up, d, w)

C13_FileIsLineByLine ==
    pc = "file_done" => returned[1] = LineByLine(file, upstream, delay, max_workers)

\* C14: a hub host gives DATASET when the first segment of the path is the
\* dataset prefix and MODEL otherwise, the code host gives CODE, any other host
\* gives UNKNOWN
StatedCategory(url) ==
    IF HostContains("huggingface.co", Lower(url.host))
    THEN (IF Len(url.segs) >= 1 /\ Lower(url.segs[1]) = "datasets" THEN "DATASET" ELSE "MODEL")
    ELSE IF HostContains("github.com", Lower(url.host)) THEN "CODE"
    ELSE "UNKNOWN"

C14_ClassifyByHostAndFirstSegment ==
    (unit.fn = "classify_url" /\ ~unit.raised) => unit.val = StatedCategory(unit.url)

\* C15: classify_url returns a category for every string, UNKNOWN for one the
\* parser rejects, and never raises; evaluate_urls is never left by an
\* exception of the classifier
C15_ClassifyIsTotal ==
    /\ unit.fn \in {"classify_url", "group_urls_by_type"} => ~unit.raised
    /\ (unit.fn = "classify_url" /\ ~unit.url.parses) => unit.val = "UNKNOWN"
    /\ pc # "raised"

\* C16: the mapping returned by group_urls_by_type has the four categories as
\* its keys and, under each, the occurrences of the input URLs of that category,
\* each once, in input order
RECURSIVE LenSum(_, _)
LenSum(grouped, ts) ==
    IF ts = <<>> THEN 0 ELSE Len(grouped[ts[1]]) + LenSum(grouped, Tail(ts))

C16_GroupPartitionsInOrder ==
    (unit.fn = "group_urls_by_type" /\ ~unit.raised) =>
        /\ DOMAIN unit.val = {"MODEL", "DATASET", "CODE", "UNKNOWN"}
        /\ \A t \in DOMAIN unit.val :
              unit.val[t] = SelectSeq(urls, LAMBDA u : classify_url(u) = t)
        /\ LenSum(unit.val, URLType) = Len(urls)

C16_Witness ==
    /\ unit.fn = "group_urls_by_type"
    /\ ~unit.raised
    /\ urls = <<UrlM1, UrlD1, UrlM1>>
    /\ unit.val["MODEL"] = <<UrlM1, UrlM1>>
    /\ unit.val["DATASET"] = <<UrlD1>>
    /\ unit.val["CODE"] = <<>>
    /\ unit.val["UNKNOWN"] = <<>>

\* C17: for a model handle whose readme was fetched, get_license_score is 1.0
\* when the front matter has `license: mit`, 0.0 when there is front matter
\* without a license field, whatever the body says, and the answer of the
\* free-text search only when the readme has no front matter at all
ReadmeOfHandle == upstream.models[TheHandle(resources).id].readme

C17_FrontMatterDecidesLicense ==
    (/\ unit.fn = "handler"
     /\ unit.kind = "MODEL"
     /\ unit.method = "get_license_score"
     /\ ReadmeOfHandle.status = "ok") =>
        /\ ~unit.raised
        /\ (ReadmeOfHandle.text.front = "license" /\ ReadmeOfHandle.text.license_value = "mit")
              => unit.val = One
        /\ ReadmeOfHandle.text.front = "license"
              => unit.val = parse_license_identifier(ReadmeOfHandle.text.license_value)
        /\ ReadmeOfHandle.text.front = "no_license" => unit.val = Zero
        /\ ReadmeOfHandle.text.front = "none"
              => unit.val = parse_license_from_text(ReadmeOfHandle.text)

\* C18: in every result evaluate_urls returned, size_score is a mapping whose
\* keys are exactly raspberry_pi, jetson_nano, desktop_pc and aws_server, also
\* when the size could not be computed, and every other metric's score is a
\* scalar
HardwareKeys == {"raspberry_pi", "jetson_nano", "desktop_pc", "aws_server"}

KeysOf(score) == {score.d[i][1] : i \in 1..Len(score.d)}

SizeIsHardwareMapping(r) ==
    /\ r.score["size_score"].kind = "dict"
    /\ Len(r.score["size_score"].d) = 4
    /\ KeysOf(r.score["size_score"]) = HardwareKeys

OthersAreScalar(r) ==
    \A m \in MetricNames \ {"size_score"} : r.score[m].kind = "scalar"

C18_SizeScoreIsHardwareMapping ==
    \A i \in 1..Len(returned) : \A j \in 1..Len(returned[i]) :
        SizeIsHardwareMapping(returned[i][j]) /\ OthersAreScalar(returned[i][j])

C18_Witness ==
    \E i \in 1..Len(returned) : \E j \in 1..Len(returned[i]) :
        /\ returned[i][j].score["size_score"] = SizeFallback
        /\ upstream.models[<<"org", returned[i][j].name>>].tree.status = "ok"

\* C19: in every result evaluate_urls returned, the latency of each metric is
\* an integer that is not negative, and net_score_latency is the sum of the
\* latencies of the metrics that took part in the net score
RECURSIVE LatencySum(_, _)
LatencySum(r, ms) ==
    IF ms = <<>> THEN 0 ELSE r.latency[ms[1]] + LatencySum(r, Tail(ms))

LatenciesAddUp(r) ==
    /\ \A m \in MetricNames : r.latency[m] \in Nat
    /\ r.net_score_latency \in Nat
    /\ r.net_score_latency = LatencySum(r, METRIC_CLASSES)

C20_CachedValueNeverChanges ==
    (unit.fn = "cache" /\ unit.stored # None) =>
        /\ cache_get(CacheHandle, CacheKey) = unit.stored
        /\ unit.read # None => unit.read = unit.stored

\* C21: the resource group holds, for each category, the handles of exactly the
\* URLs whose handler could be constructed, in input order; a URL whose
\* constructor raises loses its own handle only
RECURSIVE UrlsOfHandles(_)
UrlsOfHandles(hs) == IF hs = <<>> THEN <<>> ELSE <<hs[1].url>> \o UrlsOfHandles(Tail(hs))

BuiltFor(t, us, hs) ==
    /\ UrlsOfHandles(hs) = SelectSeq(us, LAMBDA u : u.parses)
    /\ \A i \in 1..Len(hs) : hs[i].kind = t /\ hs[i].cache = EmptyCache

C21_HandlesOfConstructibleUrls ==
    unit.fn = "create_resource_handlers" =>
        \A t \in {"MODEL", "DATASET", "CODE"} : BuiltFor(t, unit.grouped_urls[t], unit.val[t])

C21_Witness ==
    /\ unit.fn = "create_resource_handlers"
    /\ unit.grouped_urls["MODEL"] = <<UrlM1, Unparsable>>
    /\ unit.grouped_urls["DATASET"] = <<Unparsable, UrlD1>>
    /\ unit.grouped_urls["CODE"] = <<UrlK1>>
    /\ UrlsOfHandles(unit.val["MODEL"]) = <<UrlM1>>
    /\ UrlsOfHandles(unit.val["DATASET"]) = <<UrlD1>>
    /\ UrlsOfHandles(unit.val["CODE"]) = <<UrlK1>>

\* C22: the fan-out returns only after all eight tasks have finished, the map
\* it returns has one entry for every registered metric, whichever metrics
\* raised or had no handles, and the weights the aggregation adds up come to 1.0
C22_EveryMetricInTheMap ==
    pc = "joined" =>
        /\ \A m \in MetricNames : task[m] = "collected"
        /\ Cardinality(MetricNames) = 8
        /\ DOMAIN metric_results = MetricNames
        /\ NetLoop(Weights, metric_results, <<Zero, Zero, 0>>)[2] = One

C22_Witness ==
    /\ pc = "joined"
    /\ urls = <<UrlM1, UrlD1>>
    /\ \E m \in MetricNames : future[m].raised
    /\ metric_results["code_quality"] = Result(Scalar(Zero), 0)
    /\ DOMAIN metric_results = MetricNames

\* C23: evaluate_from_file returns the results of every line of the file or the
\* empty list, never those of the first lines only: a missing file, or a line
\* whose evaluation raises, gives the empty list
LineRaises(line) == LineUrls(line) # <<>> /\ group_raises(LineUrls(line))

C23_AllLinesOrNothing ==
    /\ pc \in {"file", "no_file"} => returned = <<>>
    /\ pc \in {"file_done", "file_missing"} =>
          /\ Len(returned) = 1
          /\ returned[1] = IF pc = "file_missing" \/ \E k \in 1..Len(file) : LineRaises(file[k])
                           THEN <<>>
                           ELSE LineByLine(file, upstream, delay, max_workers)

C23_Witness ==
    /\ pc = "file_done"
    /\ file = <<LineM1D1, LineBad>>
    /\ line_num = 2
    /\ LineByLine(file, upstream, delay, max_workers) # <<>>
    /\ returned = <<<<>>>>

\* C24 as stated: the contributor count of a model is 10 when downloads >= 10000
\* or likes >= 100, else 5 when downloads >= 1000 or likes >= 20, else 2 when
\* downloads >= 100 or likes >= 5, else 1
HubNumber(field) ==
    IF upstream.models[resources["MODEL"][1].id].api.body[field] = Missing THEN 0
    ELSE upstream.models[resources["MODEL"][1].id].api.body[field][2]

CountFrom(downloads, likes) ==
    IF downloads >= 10000 \/ likes >= 100 THEN 10
    ELSE IF downloads >= 1000 \/ likes >= 20 THEN 5
    ELSE IF downloads >= 100 \/ likes >= 5 THEN 2
    ELSE 1

C24_ContributorThresholds ==
    (unit.fn = "handler" /\ unit.method = "get_contributor_count") =>
        ~unit.raised /\ unit.val = CountFrom(HubNumber("downloads"), HubNumber("likes"))

\* C24, amended: the thresholds are exclusive; the count is 10 when
\* downloads > 10000 or likes > 100, else 5 when downloads > 1000 or likes > 20,
\* else 2 when downloads > 100 or likes > 5, else 1
C24_ContributorThresholdsExclusive ==
    (unit.fn = "handler" /\ unit.method = "get_contributor_count") =>
        ~unit.raised /\ unit.val = CountFrom(HubNumber("downloads") - 1, HubNumber("likes") - 1)

C24_Witness ==
    /\ unit.fn = "handler"
    /\ unit.method = "get_contributor_count"
    /\ HubNumber("downloads") = 10000
    /\ HubNumber("likes") = 100
    /\ unit.val = 5

\* C25: the code quality score is min(1.0, readme bonus + star bonus + recency
\* bonus + issues bonus), the recency bonus of 0.3 being given exactly when the
\* update timestamp lies in the year of the evaluation or the year before, and
\* not when there is no timestamp
RepoField(field) == upstream.repos[resources["CODE"][1].id].api.body[field]

YearOf(t) ==
    CASE t = "2022-06-01T00:00:00Z" -> 2022
      [] t = "2023-06-01T00:00:00Z" -> 2023
      [] t = "2024-06-01T00:00:00Z" -> 2024
      [] t = "2025-06-01T00:00:00Z" -> 2025
      [] t = "2026-06-01T00:00:00Z" -> 2026

UpdatedRecently(year) ==
    /\ RepoField("updated_at") \notin {Missing, Str("")}
    /\ YearOf(RepoField("updated_at")[2]) \in {year - 1, year}

StarBonus ==
    IF RepoField("stargazers_count") = Missing THEN 0
    ELSE IF RepoField("stargazers_count")[2] > 100 THEN 4
    ELSE IF RepoField("stargazers_count")[2] > 10 THEN 3
    ELSE IF RepoField("stargazers_count")[2] > 0 THEN 2
    ELSE 0

BonusSum(year) ==
    (IF RepoField("has_readme") = Bool(TRUE) THEN 3 ELSE 0) + StarBonus
    + (IF UpdatedRecently(year) THEN 3 ELSE 0)
    + (IF RepoField("has_issues") = Bool(TRUE) THEN 2 ELSE 0)

C25_RecencyFollowsEvaluationDate ==
    unit.fn = "get_code_quality_score" =>
        ~unit.raised /\ unit.val = Tenths(IF BonusSum(unit.year) > 10 THEN 10 ELSE BonusSum(unit.year))

\* C26: a URL that classify_url files as DATASET gives the dataset handler a
\* non-empty dataset id, and one it files as MODEL gives the model handler a
\* non-empty model id, so that no result is named "unknown"
C26_ClassifiedUrlsHaveIds ==
    (unit.fn = "classify_url" /\ ~unit.raised) =>
        /\ unit.val = "DATASET" => DatasetHandler_init(unit.url).id # <<>>
        /\ unit.val = "MODEL" =>
              /\ ModelHandler_init(unit.url).id # <<>>
              /\ ModelName(unit.url) # "unknown"

\* what was registered for a (type, id): its versions, each with the metadata
\* of its latest registration
VersionsOf(artifact_type, artifact_id) ==
    {[version |-> r.version, metadata |-> r.metadata] :
        r \in {x \in registry.items : x.artifact_type = artifact_type
                                       /\ x.artifact_id = artifact_id}}

\* the versions and metadata of the items of the last response
ItemsGot == {[version |-> i.version, metadata |-> i.metadata] : i \in unit.items}

\* C27: with no reset so far, get_artifact(type, id) answers 200 with exactly
\* one item per version registered for that (type, id), each with the metadata
\* of the latest registration of that version, and 404 when nothing was
\* registered for that (type, id)
C27_GetReturnsWhatWasRegistered ==
    (/\ pc = "registry"
     /\ unit.fn = "get_artifact"
     /\ unit.artifact_type # None
     /\ registry.reset = "never")
        => IF VersionsOf(unit.artifact_type, unit.artifact_id) = {}
           THEN unit.status = 404
           ELSE /\ unit.status = 200
                /\ Cardinality(unit.items)
                      = Cardinality(VersionsOf(unit.artifact_type, unit.artifact_id))
                /\ ItemsGot = VersionsOf(unit.artifact_type, unit.artifact_id)

\* C28: after reset_registry answered 200 and until the next register, the
\* table holds no record, whatever it held before: every get_artifact answers
\* 404 and every list by type answers an empty item list
C28_ResetEmptiesTheTable ==
    (pc = "registry" /\ registry.reset = "just")
        => /\ table = {}
           /\ (unit.fn = "get_artifact" /\ unit.artifact_type # None)
                 => unit.status = 404
           /\ (unit.fn = "list_artifacts" /\ unit.artifact_type # None
                                          /\ unit.artifact_id = None)
                 => (unit.status = 200 /\ unit.items = {})

\* C29: two different (type, id) pairs are never stored under one partition
\* key: a get for one pair returns no record of another pair, a register for
\* one pair overwrites no record of another pair (with no reset, every
\* registered (type, id, version) keeps a record of its own), and a list by
\* type returns only records of the type asked for
C29_KeyIsInjective ==
    pc = "registry"
        => /\ \A i, j \in table :
                i.pk = j.pk => (i.artifact_type = j.artifact_type
                                    /\ i.artifact_id = j.artifact_id)
           /\ (unit.fn = "get_artifact" /\ unit.status = 200)
                 => \A i \in unit.items : /\ i.artifact_type = unit.artifact_type
                                           /\ i.artifact_id = unit.artifact_id
           /\ registry.reset = "never"
                 => \A r \in registry.items :
                        \E i \in table : /\ i.artifact_type = r.artifact_type
                                          /\ i.artifact_id = r.artifact_id
                                          /\ i.version = r.version
           /\ (unit.fn = "list_artifacts" /\ unit.artifact_id = None /\ unit.status = 200)
                 => \A i \in unit.items : i.artifact_type = unit.artifact_type

====
